---- MODULE Spec2Model ----
(***************************************************************************)
(* A model of analyzePage.js (src/unnamed/part_000): the DOM-to-flat-map   *)
(* traversal buildDomTree, the classifier predicates it consults, the      *)
(* highlight indexer handleHighlighting, the overlay renderer              *)
(* highlightElement, the page-wide cleanup registry and cleanupHighlights, *)
(* and the side panel's cleanup button handler (src/sidepanel.js).         *)
(*                                                                         *)
(* A page is a tree of nodes.  Node 0 is document.body, nodes 1..MaxNodes  *)
(* are the other nodes, each with a parent and an element kind that fixes  *)
(* what the browser answers for it (tag, attributes, computed style,       *)
(* offset size, client rects, hit test).  The children of an iframe node   *)
(* are the child nodes of its content document's body, which is node -n    *)
(* for the iframe n; the children of a shadow host are the child nodes of  *)
(* its shadow root.                                                        *)
(***************************************************************************)
EXTENDS Integers, Sequences, FiniteSets, TLC

VARIABLES
  dom,        \* the page: [parent: node -> node, kind: node -> kind name,
              \*            el: node -> what the browser answers for the node]
  page,       \* window/document state that outlives a run (overlays, registry)
  result,     \* the value returned by the last analyzePage call
  trace,      \* the last call, the page it found and, for a run, its settings,
              \* final counters and allocation order
  runs,       \* number of analyzePage calls so far
  error,      \* TRUE once a call has raised an uncaught error
  tracker,    \* one overlay's closure state (throttle clock, boxes, label),
              \* the window's clock and scroll position
  panel       \* the side panel: Analyze button, results table, the
              \* populateResultsTable callbacks still to run

vars == <<dom, page, result, trace, runs, error, tracker, panel>>

-----------------------------------------------------------------------------
(* Bounds *)

MaxNodes == 3
MaxRuns == 2
MaxTime == 56
\* cleanup button handlers in flight at the same time
MaxCleanups == 1

-----------------------------------------------------------------------------
(* Nodes *)

Body == 0
NodeIds == 1..MaxNodes
NoNode == -(MaxNodes + 2)
ContainerNode == -(MaxNodes + 1)

Null == -1
Undefined == -1

-----------------------------------------------------------------------------
(* The browser: geometry *)

Window == [innerWidth |-> 100, innerHeight |-> 100]

Rect(t, l, w, h) == [top |-> t, left |-> l, width |-> w, height |-> h]
RectBottom(r) == r.top + r.height
RectRight(r) == r.left + r.width

ZeroRect == Rect(0, 0, 0, 0)
InViewRect == Rect(10, 10, 40, 20)
BelowFoldRect == Rect(300, 10, 40, 20)
FullRect == Rect(0, 0, 100, 100)

SeqMin(s) == CHOOSE x \in {s[i] : i \in DOMAIN s} : \A j \in DOMAIN s : x <= s[j]
SeqMax(s) == CHOOSE x \in {s[i] : i \in DOMAIN s} : \A j \in DOMAIN s : x >= s[j]

-----------------------------------------------------------------------------
(* The browser: element kinds.  Each kind is what the page author wrote    *)
(* (tag, attributes, style) and what layout made of it when the element is *)
(* rendered (offset size, client rects, result of the hit test).           *)

HIGHLIGHT_CONTAINER_ID == "dom-tree-analyzer-container"

Kind(type, tag, attrs, cursor, display, ow, oh, rects, hit) ==
  [nodeType |-> type, tagName |-> tag, attrs |-> attrs, cursor |-> cursor,
   display |-> display, visibility |-> "visible",
   offsetWidth |-> ow, offsetHeight |-> oh, rects |-> rects, hit |-> hit,
   text |-> "", shadowRoot |-> FALSE, frame |-> "none", transform |-> "none"]

ElementKinds ==
  [ body |-> Kind("element", "body", {}, "auto", "block", 100, 100, <<FullRect>>, TRUE),
    div |-> Kind("element", "div", {}, "auto", "block", 40, 20, <<InViewRect>>, TRUE),
    button |-> Kind("element", "button", {<<"id", "b1">>}, "auto", "inline-block",
                    40, 20, <<InViewRect>>, TRUE),
    span_ptr |-> Kind("element", "span", {<<"class", "icon">>}, "pointer", "inline",
                      40, 20, <<InViewRect>>, TRUE),
    \* <a style="display:inline-block;width:40px;height:20px;transform:scale(0)">:
    \* a layout box (offset size) whose transformed client rect is empty
    a_scaled |-> [Kind("element", "a", {}, "auto", "inline-block",
                       40, 20, <<InViewRect>>, TRUE) EXCEPT !.transform = "scale(0)"],
    \* <a href="/x">
    a_href |-> Kind("element", "a", {<<"href", "/x">>}, "auto", "inline",
                    40, 20, <<InViewRect>>, TRUE),
    \* <div role="button">
    div_role |-> Kind("element", "div", {<<"role", "button">>}, "auto", "block",
                      40, 20, <<InViewRect>>, TRUE),
    \* <div style="display:none">
    div_hidden |-> Kind("element", "div", {}, "auto", "none", 0, 0, <<>>, FALSE),
    button_below |-> Kind("element", "button", {}, "auto", "inline-block",
                          40, 20, <<BelowFoldRect>>, FALSE),
    script |-> Kind("element", "script", {}, "auto", "none", 0, 0, <<>>, FALSE),
    text |-> [Kind("text", "#text", {}, "auto", "inline", 0, 0, <<InViewRect>>, FALSE)
                EXCEPT !.text = "Go"],
    \* a text node of 120 characters
    text_long |-> [Kind("text", "#text", {}, "auto", "inline", 0, 0, <<InViewRect>>, FALSE)
                     EXCEPT !.text = "Terms and conditions apply to every order placed through this page, including orders changed after they have been paid i"],
    iframe |-> [Kind("element", "iframe", {<<"src", "/f">>}, "auto", "inline",
                     40, 20, <<InViewRect>>, TRUE) EXCEPT !.frame = "same"],
    iframe_xo |-> [Kind("element", "iframe", {<<"src", "//o">>}, "auto", "inline",
                        40, 20, <<InViewRect>>, TRUE) EXCEPT !.frame = "cross"],
    \* <div role="button"> with an open shadow root
    host |-> [Kind("element", "div", {<<"role", "button">>}, "auto", "block",
                   40, 20, <<InViewRect>>, TRUE) EXCEPT !.shadowRoot = TRUE],
    \* <button disabled class="button">
    button_off |-> Kind("element", "button", {<<"disabled", "">>, <<"class", "button">>},
                        "auto", "inline-block", 40, 20, <<InViewRect>>, TRUE),
    \* <div class="button">
    div_cls |-> Kind("element", "div", {<<"class", "button">>}, "auto", "block",
                     40, 20, <<InViewRect>>, TRUE),
    \* <div contenteditable="true">
    div_edit |-> Kind("element", "div", {<<"contenteditable", "true">>}, "auto", "block",
                      40, 20, <<InViewRect>>, TRUE),
    \* <div onclick="go()">
    div_onclick |-> Kind("element", "div", {<<"onclick", "go()">>}, "auto", "block",
                         40, 20, <<InViewRect>>, TRUE),
    \* <div aria-label="Menu">
    div_aria |-> Kind("element", "div", {<<"aria-label", "Menu">>}, "auto", "block",
                      40, 20, <<InViewRect>>, TRUE),
    \* <div tabindex="0" class="row">
    div_tab |-> Kind("element", "div", {<<"tabindex", "0">>, <<"class", "row">>},
                     "auto", "block", 40, 20, <<InViewRect>>, TRUE),
    \* an empty <div>: as wide as its parent, no height
    div_flat |-> Kind("element", "div", {}, "auto", "block", 40, 0,
                      <<Rect(10, 10, 40, 0)>>, FALSE),
    \* <x-app style="display:contents"> with an open shadow root: no box of
    \* its own, its content is laid out
    host_empty |-> [Kind("element", "x-app", {}, "auto", "contents", 0, 0, <<>>, FALSE)
                      EXCEPT !.shadowRoot = TRUE],
    \* <x-app style="display:none"> with an open shadow root
    host_hidden |-> [Kind("element", "x-app", {}, "auto", "none", 0, 0, <<>>, FALSE)
                       EXCEPT !.shadowRoot = TRUE],
    \* <span style="cursor:pointer"> broken over two lines
    span_wrap |-> Kind("element", "span", {}, "pointer", "inline", 40, 40,
                       <<Rect(10, 50, 40, 20), Rect(30, 10, 30, 20)>>, TRUE),
    container |-> Kind("element", "div", {<<"id", HIGHLIGHT_CONTAINER_ID>>},
                       "auto", "block", 100, 100, <<FullRect>>, FALSE) ]

IsIframeBody(n) == n < 0 /\ (-n) \in NodeIds

AllNodes == {Body, ContainerNode} \cup NodeIds \cup {-n : n \in NodeIds}

KindOf(d, n) ==
  IF n = Body \/ IsIframeBody(n) THEN ElementKinds.body
  ELSE IF n = ContainerNode THEN ElementKinds.container
  ELSE ElementKinds[d.kind[n]]

-----------------------------------------------------------------------------
(* The browser: what it answers for the nodes of a page d = [parent, kind] *)

RECURSIVE SortedSeq(_)
SortedSeq(S) ==
  IF S = {} THEN <<>>
  ELSE LET m == CHOOSE x \in S : \A y \in S : x <= y
       IN <<m>> \o SortedSeq(S \ {m})

\* the nodes written under n in the page, in document order
NestedNodes(d, n) == SortedSeq({c \in NodeIds : d.parent[c] = n})

IsFrameNode(d, n) == n \in NodeIds /\ KindOf(d, n).frame # "none"
IsHostNode(d, n) == n \in NodeIds /\ KindOf(d, n).shadowRoot

\* node.childNodes (the overlay container, when there is one, is appended to
\* the body's list by the traversal)
childNodes(d, n) ==
  IF n = Body THEN NestedNodes(d, Body)
  ELSE IF IsIframeBody(n) THEN NestedNodes(d, -n)
  ELSE IF n \in NodeIds /\ ~IsFrameNode(d, n) /\ ~IsHostNode(d, n) THEN NestedNodes(d, n)
  ELSE <<>>

\* node.shadowRoot.childNodes
shadowChildNodes(d, n) == IF IsHostNode(d, n) THEN NestedNodes(d, n) ELSE <<>>

\* the node around n in the flattened tree (the iframe for its body)
Around(d, n) ==
  IF n \in NodeIds THEN
    (IF IsFrameNode(d, d.parent[n]) THEN -(d.parent[n]) ELSE d.parent[n])
  ELSE IF IsIframeBody(n) THEN -n
  ELSE IF n = ContainerNode THEN Body
  ELSE NoNode

\* node.parentElement: null under a shadow root; <html>, which is no node of
\* the model, for a body
parentElement(d, n) ==
  IF n \in NodeIds THEN
    (IF IsHostNode(d, d.parent[n]) THEN NoNode ELSE Around(d, n))
  ELSE IF n = ContainerNode THEN Body
  ELSE NoNode

\* element.ownerDocument !== window.document
RECURSIVE InIframe(_, _)
InIframe(d, n) == IsIframeBody(n) \/ (Around(d, n) # NoNode /\ InIframe(d, Around(d, n)))

\* A box is laid out for n only when neither n nor a node around it has
\* display: none.
RECURSIVE Rendered(_, _)
Rendered(d, n) ==
  /\ KindOf(d, n).display # "none"
  /\ Around(d, n) # NoNode => Rendered(d, Around(d, n))

\* n or a node around it in the same document is scaled to nothing: its
\* boxes exist but their client rects are empty
RECURSIVE Squashed(_, _)
Squashed(d, n) ==
  \/ KindOf(d, n).transform = "scale(0)"
  \/ n \in NodeIds /\ Squashed(d, Around(d, n))

\* the client rects of a box after the transforms
Transformed(rects, squashed) ==
  IF squashed THEN [i \in DOMAIN rects |-> Rect(rects[i].top, rects[i].left, 0, 0)]
  ELSE rects

\* element.getBoundingClientRect(): the union of the client rects
UnionRect(rs) ==
  IF rs = <<>> THEN ZeroRect
  ELSE LET t == SeqMin([i \in DOMAIN rs |-> rs[i].top])
           l == SeqMin([i \in DOMAIN rs |-> rs[i].left])
           b == SeqMax([i \in DOMAIN rs |-> RectBottom(rs[i])])
           r == SeqMax([i \in DOMAIN rs |-> RectRight(rs[i])])
       IN Rect(t, l, r - l, b - t)

IsElementNode(d, n) == KindOf(d, n).nodeType = "element"

\* What the browser answers for node n when k is what the page says about it
\* and rendered tells whether it has a box.
Answers(d, n, k, rendered, rects, squashed) ==
  [nodeType |-> k.nodeType,
   tagName |-> k.tagName,
   attrs |-> k.attrs,
   text |-> k.text,
   shadowRoot |-> k.shadowRoot,
   frame |-> k.frame,
   \* window.getComputedStyle(element)
   style |-> [display |-> k.display, visibility |-> k.visibility, cursor |-> k.cursor],
   offsetWidth |-> IF rendered THEN k.offsetWidth ELSE 0,
   offsetHeight |-> IF rendered THEN k.offsetHeight ELSE 0,
   \* element.getClientRects(); range.getClientRects() for a text node
   clientRects |-> IF rendered THEN rects ELSE <<>>,
   boundingRect |-> IF rendered THEN UnionRect(rects) ELSE ZeroRect,
   \* element.checkVisibility({checkOpacity, checkVisibilityCSS})
   checkVisibility |-> rendered /\ k.visibility # "hidden",
   \* elementFromPoint at the check points of isTopElement finds the element
   \* or a descendant of it
   hit |-> k.hit /\ ~squashed,
   inIframe |-> InIframe(d, n),
   parentElement |-> parentElement(d, n),
   childNodes |-> childNodes(d, n),
   shadowChildNodes |-> shadowChildNodes(d, n),
   \* element.children
   children |-> SelectSeq(childNodes(d, n), LAMBDA c : IsElementNode(d, c))]

Browser(d) ==
  [n \in AllNodes |->
     Answers(d, n, KindOf(d, n), Rendered(d, n),
             Transformed(KindOf(d, n).rects, Squashed(d, n)), Squashed(d, n))]

\* the browser's answers for node n of the page under analysis
El(n) == dom.el[n]

hasAttribute(n, name) == \E p \in El(n).attrs : p[1] = name
getAttribute(n, name) ==
  IF \E p \in El(n).attrs : p[1] = name
  THEN (CHOOSE p \in El(n).attrs : p[1] = name)[2]
  ELSE "<null>"
classListContains(n, c) == <<"class", c>> \in El(n).attrs
tagNameLower(n) == El(n).tagName

-----------------------------------------------------------------------------
(* Visibility and interactivity classifier *)

Settings ==
  [doHighlightElements : BOOLEAN, focusHighlightIndex : {-1, 1},
   viewportExpansion : {-1, 0}]

\* the rect misses the window grown by the expansion on every side
OutsideExpandedViewport(rect, viewportExpansion) ==
  \/ rect.top + rect.height < -viewportExpansion
  \/ rect.top > Window.innerHeight + viewportExpansion
  \/ rect.left + rect.width < -viewportExpansion
  \/ rect.left > Window.innerWidth + viewportExpansion

leafElementDenyList == {"svg", "script", "style", "link", "meta", "noscript", "template"}
alwaysAccept == {"body", "div", "main", "article", "section", "nav", "header", "footer"}

isElementAccepted_ScriptNotDenied(n) ==
  \/ El(n).tagName \in alwaysAccept
  \/ El(n).tagName \notin (leafElementDenyList \ {"script"})

isElementAccepted(n) ==
  \/ El(n).tagName \in alwaysAccept
  \/ El(n).tagName \notin leafElementDenyList

isElementVisible(n) ==
  /\ El(n).offsetWidth > 0
  /\ El(n).offsetHeight > 0
  /\ El(n).style.visibility # "hidden"
  /\ El(n).style.display # "none"

interactiveCursors ==
  {"pointer", "move", "text", "grab", "grabbing", "cell", "copy", "alias",
   "all-scroll", "col-resize", "context-menu", "crosshair", "e-resize",
   "ew-resize", "help", "n-resize", "ne-resize", "nesw-resize", "ns-resize",
   "nw-resize", "nwse-resize", "row-resize", "s-resize", "se-resize",
   "sw-resize", "vertical-text", "w-resize", "zoom-in", "zoom-out"}

nonInteractiveCursors == {"not-allowed", "no-drop", "wait", "progress", "initial", "inherit"}

interactiveElements ==
  {"a", "button", "input", "select", "textarea", "details", "summary",
   "label", "option", "optgroup", "fieldset", "legend"}

explicitDisableTags == {"disabled", "readonly"}

interactiveRoles ==
  {"button", "menu", "menubar", "menuitem", "menuitemradio", "menuitemcheckbox",
   "radio", "checkbox", "tab", "switch", "slider", "spinbutton", "combobox",
   "searchbox", "textbox", "listbox", "option", "scrollbar"}

commonMouseAttrs == {"onclick", "onmousedown", "onmouseup", "ondblclick"}

doesElementHaveInteractivePointer(n) ==
  /\ El(n).tagName # "html"
  /\ El(n).style.cursor \in interactiveCursors

\* element.isContentEditable: the element's own contenteditable attribute
\* decides when it is set, else the property is inherited from the parent
\* element
RECURSIVE isContentEditable(_)
isContentEditable(n) ==
  IF n = NoNode THEN FALSE
  ELSE IF hasAttribute(n, "contenteditable")
  THEN getAttribute(n, "contenteditable") \in {"true", "", "plaintext-only"}
  ELSE isContentEditable(El(n).parentElement)

isInteractiveElement_DisabledFallsThrough(n) ==
  IF El(n).nodeType # "element" THEN FALSE
  ELSE IF doesElementHaveInteractivePointer(n) THEN TRUE
  ELSE IF /\ El(n).tagName \in interactiveElements
          /\ El(n).style.cursor \notin nonInteractiveCursors
          /\ \A t \in explicitDisableTags : ~hasAttribute(n, t)
          /\ ~hasAttribute(n, "inert") THEN TRUE
  ELSE IF isContentEditable(n) THEN TRUE
  ELSE IF \/ classListContains(n, "button")
          \/ classListContains(n, "dropdown-toggle")
          \/ getAttribute(n, "data-index") \notin {"<null>", ""}
          \/ <<"data-toggle", "dropdown">> \in El(n).attrs
          \/ <<"aria-haspopup", "true">> \in El(n).attrs THEN TRUE
  ELSE IF \E r \in interactiveRoles :
            <<"role", r>> \in El(n).attrs \/ <<"aria-role", r>> \in El(n).attrs
       THEN TRUE
  ELSE \E a \in commonMouseAttrs : hasAttribute(n, a)

isInteractiveElement_NoRoles(n) ==
  IF El(n).nodeType # "element" THEN FALSE
  ELSE IF doesElementHaveInteractivePointer(n) THEN TRUE
  ELSE IF El(n).tagName \in interactiveElements THEN
    /\ El(n).style.cursor \notin nonInteractiveCursors
    /\ \A t \in explicitDisableTags : ~hasAttribute(n, t)
    /\ ~hasAttribute(n, "inert")
  ELSE IF isContentEditable(n) THEN TRUE
  ELSE IF \/ classListContains(n, "button")
          \/ classListContains(n, "dropdown-toggle")
          \/ getAttribute(n, "data-index") \notin {"<null>", ""}
          \/ <<"data-toggle", "dropdown">> \in El(n).attrs
          \/ <<"aria-haspopup", "true">> \in El(n).attrs THEN TRUE
  ELSE \E a \in commonMouseAttrs : hasAttribute(n, a)

\* The page runs outside DevTools: getEventListeners and
\* getEventListenersForNode are not functions, so the listener probes are
\* skipped and only the inline handler attributes count.
isInteractiveElement(n) ==
  IF El(n).nodeType # "element" THEN FALSE
  ELSE IF doesElementHaveInteractivePointer(n) THEN TRUE
  ELSE IF El(n).tagName \in interactiveElements THEN
    /\ El(n).style.cursor \notin nonInteractiveCursors
    /\ \A t \in explicitDisableTags : ~hasAttribute(n, t)
    /\ ~hasAttribute(n, "inert")
  ELSE IF isContentEditable(n) THEN TRUE
  ELSE IF \/ classListContains(n, "button")
          \/ classListContains(n, "dropdown-toggle")
          \/ getAttribute(n, "data-index") \notin {"<null>", ""}
          \/ <<"data-toggle", "dropdown">> \in El(n).attrs
          \/ <<"aria-haspopup", "true">> \in El(n).attrs THEN TRUE
  ELSE IF \E r \in interactiveRoles :
            <<"role", r>> \in El(n).attrs \/ <<"aria-role", r>> \in El(n).attrs
       THEN TRUE
  ELSE \E a \in commonMouseAttrs : hasAttribute(n, a)

AnyRectInViewport_AnyArea(rects, viewportExpansion) ==
  \E i \in DOMAIN rects : rects[i].width > 0 /\ rects[i].height > 0

\* some client rect has an area and meets the expanded viewport
AnyRectInViewport(rects, viewportExpansion) ==
  \E i \in DOMAIN rects :
    /\ rects[i].width > 0
    /\ rects[i].height > 0
    /\ ~OutsideExpandedViewport(rects[i], viewportExpansion)

isTopElement_NoUnboundedShortcut(args, n) ==
  IF El(n).clientRects = <<>> THEN FALSE
  ELSE IF ~AnyRectInViewport(El(n).clientRects, args.viewportExpansion) THEN FALSE
  ELSE IF El(n).inIframe THEN TRUE
  ELSE El(n).hit

isTopElement(args, n) ==
  IF args.viewportExpansion = -1 THEN TRUE
  ELSE IF El(n).clientRects = <<>> THEN FALSE
  ELSE IF ~AnyRectInViewport(El(n).clientRects, args.viewportExpansion) THEN FALSE
  ELSE IF El(n).inIframe THEN TRUE
  ELSE El(n).hit

isInExpandedViewport(n, viewportExpansion) ==
  IF viewportExpansion = -1 THEN TRUE
  ELSE IF El(n).clientRects = <<>> THEN
    /\ ~(El(n).boundingRect.width = 0 \/ El(n).boundingRect.height = 0)
    /\ ~OutsideExpandedViewport(El(n).boundingRect, viewportExpansion)
  ELSE AnyRectInViewport(El(n).clientRects, viewportExpansion)

ParentChecksVisible(n) ==
  /\ El(n).parentElement # NoNode
  /\ El(El(n).parentElement).checkVisibility

isTextNodeVisible(args, n) ==
  IF args.viewportExpansion = -1 THEN ParentChecksVisible(n)
  ELSE /\ El(n).clientRects # <<>>
       /\ AnyRectInViewport(El(n).clientRects, args.viewportExpansion)
       /\ ParentChecksVisible(n)

interactiveCandidateTags ==
  {"a", "button", "input", "select", "textarea", "details", "summary", "label"}

isInteractiveCandidate(n) ==
  /\ El(n).nodeType = "element"
  /\ \/ El(n).tagName \in interactiveCandidateTags
     \/ \E a \in {"onclick", "role", "tabindex", "aria-", "data-action"} : hasAttribute(n, a)
     \/ <<"contenteditable", "true">> \in El(n).attrs

DISTINCT_INTERACTIVE_TAGS ==
  {"a", "button", "input", "select", "textarea", "summary", "details", "label", "option"}

INTERACTIVE_ROLES ==
  {"button", "link", "menuitem", "menuitemradio", "menuitemcheckbox",
   "radio", "checkbox", "tab", "switch", "slider", "spinbutton",
   "combobox", "searchbox", "textbox", "listbox", "option", "scrollbar"}

\* element.matches('button,a,[role="button"],.menu,.dropdown,.list,.toolbar')
MatchesKnownContainer(n) ==
  \/ El(n).tagName \in {"button", "a"}
  \/ <<"role", "button">> \in El(n).attrs
  \/ \E c \in {"menu", "dropdown", "list", "toolbar"} : classListContains(n, c)

\* element.closest(...) is not null
RECURSIVE closestKnownContainer(_)
closestKnownContainer(n) ==
  IF n = NoNode THEN FALSE
  ELSE MatchesKnownContainer(n) \/ closestKnownContainer(El(n).parentElement)

isHeuristicallyInteractive(n) ==
  /\ El(n).nodeType = "element"
  /\ isElementVisible(n)
  /\ \/ isInteractiveElement(n)
     \/ \E a \in {"role", "tabindex", "onclick"} : hasAttribute(n, a)
     \/ \E c \in {"btn", "clickable", "menu", "item", "entry", "link"} : classListContains(n, c)
  /\ \E i \in DOMAIN El(n).children : isElementVisible(El(n).children[i])
  /\ closestKnownContainer(n)
  /\ El(n).parentElement # Body

commonEventAttrs ==
  {"onmousedown", "onmouseup", "onkeydown", "onkeyup", "onsubmit", "onchange",
   "oninput", "onfocus", "onblur"}

isElementDistinctInteraction(n) ==
  /\ El(n).nodeType = "element"
  /\ \/ El(n).tagName = "iframe"
     \/ El(n).tagName \in DISTINCT_INTERACTIVE_TAGS
     \/ \E r \in INTERACTIVE_ROLES : <<"role", r>> \in El(n).attrs
     \/ isContentEditable(n)
     \/ \E a \in {"data-testid", "data-cy", "data-test", "onclick"} : hasAttribute(n, a)
     \/ \E a \in commonEventAttrs : hasAttribute(n, a)
     \/ isHeuristicallyInteractive(n)

-----------------------------------------------------------------------------
(* Overlay renderer and cleanup registry *)

\* window state before the script has run: no container in the document
\* (containers counts the elements with the container id), no
\* overlay element, no listener, window._highlightCleanupFunctions and
\* window.cleanupHighlights not set
FreshPage ==
  [containers |-> 0, overlays |-> {}, listeners |-> {}, registry |-> <<>>,
   cleanupDefined |-> FALSE]

\* the boxes (one per client rect with an area) and the label of a handle
OverlayParts(h, rects) ==
  {[handle |-> h, part |-> "box", rect |-> i] :
     i \in {j \in DOMAIN rects : ~(rects[j].width = 0 \/ rects[j].height = 0)}}
  \cup {[handle |-> h, part |-> "label", rect |-> 1]}

OverlayListeners(h) ==
  {[handle |-> h, type |-> "scroll"], [handle |-> h, type |-> "resize"]}

\* try { ... } finally { push cleanupFn }: boxes, label, listeners and the
\* closure of handle h, once the element has client rects
DrawOverlay(pg, h, rects) ==
  IF rects = <<>> THEN pg
  ELSE [pg EXCEPT !.overlays = @ \cup OverlayParts(h, rects),
                  !.listeners = @ \cup OverlayListeners(h),
                  !.registry = Append(@, h)]

CreateContainer(pg) == [pg EXCEPT !.containers = @ + 1]

GetOrCreateContainer_AlwaysCreates(pg) == CreateContainer(pg)

\* let container = document.getElementById(id); if (!container) { create it
\* and append it to document.body }
GetOrCreateContainer(pg) == IF pg.containers = 0 THEN CreateContainer(pg) ELSE pg

\* The page after highlightElement(element, index, parentIframe) in run
\* number run.  The closure cleanupFn is identified by its handle.
highlightElement(pg, run, element, index, parentIframe) ==
  DrawOverlay(GetOrCreateContainer(pg),
              [run |-> run, index |-> index, node |-> element],
              El(element).clientRects)

\* the closure cleanupFn of handle h
cleanupFn(pg, h) ==
  [pg EXCEPT !.listeners = {l \in @ : l.handle # h},
             !.overlays = {o \in @ : o.handle # h}]

\* fns.forEach(fn => fn())
RECURSIVE RunCleanupFns(_, _)
RunCleanupFns(pg, fns) ==
  IF fns = <<>> THEN pg
  ELSE RunCleanupFns(cleanupFn(pg, Head(fns)), Tail(fns))

\* container.remove(): what is inside the container leaves the document too
RemoveContainer(pg) ==
  IF pg.containers > 0 THEN [pg EXCEPT !.containers = @ - 1, !.overlays = {}] ELSE pg

cleanupHighlights_KeepsContainer(pg) ==
  IF Len(pg.registry) > 0
  THEN [RunCleanupFns(pg, pg.registry) EXCEPT !.registry = <<>>]
  ELSE pg

\* the body of window.cleanupHighlights
cleanupHighlights(pg) ==
  RemoveContainer(IF Len(pg.registry) > 0
                  THEN [RunCleanupFns(pg, pg.registry) EXCEPT !.registry = <<>>]
                  ELSE pg)

\* the fallback of the side panel's cleanup handler when
\* window.cleanupHighlights is not set
ClearRegistry(pg) == [RunCleanupFns(pg, pg.registry) EXCEPT !.registry = <<>>]
fallbackCleanup(pg) == ClearRegistry(RemoveContainer(pg))

-----------------------------------------------------------------------------
(* One overlay's position tracking: updatePositions behind throttleFunction *)

\* let labelWidth = 20; let labelHeight = 16 (the label is measured before it
\* is attached, so the defaults stay)
labelWidth == 20
labelHeight == 16

\* throttleFunction(updatePositions, 16)
delay == 16

Max(a, b) == IF a >= b THEN a ELSE b
Min(a, b) == IF a <= b THEN a ELSE b

\* the rects of the top document after the window has scrolled down by scrollY
Scrolled(rects, scrollY) ==
  [i \in DOMAIN rects |->
     Rect(rects[i].top - scrollY, rects[i].left, rects[i].width, rects[i].height)]

\* after a resize to a wide window an inline element sits on one line
Reflowed(rects, wide) == IF wide /\ Len(rects) > 1 THEN SubSeq(rects, 1, 1) ELSE rects

\* element.getClientRects() now: relative to the viewport of its own document
getClientRects(element, scrollY, wide) ==
  IF El(element).inIframe THEN Reflowed(El(element).clientRects, wide)
  ELSE Scrolled(Reflowed(El(element).clientRects, wide), scrollY)

\* parentIframe.getBoundingClientRect() now, as { x: left, y: top }
iframeOffset(parentIframe, scrollY) ==
  IF parentIframe = NoNode THEN [x |-> 0, y |-> 0]
  ELSE IF El(parentIframe).inIframe
  THEN [x |-> El(parentIframe).boundingRect.left, y |-> El(parentIframe).boundingRect.top]
  ELSE [x |-> El(parentIframe).boundingRect.left,
        y |-> El(parentIframe).boundingRect.top - scrollY]

\* the style of a box drawn over rect
BoxOver(rect, offset) ==
  [top |-> rect.top + offset.y, left |-> rect.left + offset.x,
   width |-> rect.width, height |-> rect.height, display |-> "block"]

\* the label's corner before it is kept inside the window
LabelCorner(firstRect, offset) ==
  IF firstRect.width < labelWidth + 4 \/ firstRect.height < labelHeight + 4
  THEN [top |-> firstRect.top + offset.y - labelHeight - 2,
        left |-> IF firstRect.left + offset.x + firstRect.width - labelWidth < offset.x
                 THEN firstRect.left + offset.x
                 ELSE firstRect.left + offset.x + firstRect.width - labelWidth]
  ELSE [top |-> firstRect.top + offset.y + 2,
        left |-> firstRect.left + offset.x + firstRect.width - labelWidth - 2]

\* Math.max(0, Math.min(v, window.inner - label size))
LabelStyle(corner) ==
  [top |-> Max(0, Min(corner.top, Window.innerHeight - labelHeight)),
   left |-> Max(0, Min(corner.left, Window.innerWidth - labelWidth)),
   display |-> "block"]

\* for (const rect of rects) { if (rect.width === 0 || rect.height === 0)
\* continue; ... overlays.push(...) }
RECURSIVE CreateBoxes(_, _)
CreateBoxes(rects, offset) ==
  IF rects = <<>> THEN <<>>
  ELSE IF Head(rects).width = 0 \/ Head(rects).height = 0
  THEN CreateBoxes(Tail(rects), offset)
  ELSE <<BoxOver(Head(rects), offset)>> \o CreateBoxes(Tail(rects), offset)

\* the closure state before highlightElement has built an overlay
NoTracker ==
  [installed |-> FALSE, element |-> NoNode, parentIframe |-> NoNode,
   now |-> 0, scrollY |-> 0, wide |-> FALSE,
   lastCall |-> 0, boxes |-> <<>>, label |-> [top |-> 0, left |-> 0, display |-> "none"],
   outcome |-> "none", eventAt |-> 0, lastRun |-> -1,
   prev |-> [boxes |-> <<>>, label |-> [top |-> 0, left |-> 0, display |-> "none"],
             lastRun |-> -1]]

\* the boxes, the label and the throttle state highlightElement leaves
Tracking(t, element, parentIframe, rects, offset) ==
  [t EXCEPT !.installed = TRUE, !.element = element, !.parentIframe = parentIframe,
            !.lastCall = 0,
            !.boxes = CreateBoxes(rects, offset),
            !.label = LabelStyle(LabelCorner(rects[1], offset))]

\* overlays.forEach((overlayData, i) => ...) and the label update
Positioned(t, newRects, newIframeOffset) ==
  [t EXCEPT !.boxes = [i \in DOMAIN t.boxes |->
                         IF i <= Len(newRects)
                         THEN BoxOver(newRects[i], newIframeOffset)
                         ELSE [t.boxes[i] EXCEPT !.display = "none"]],
            !.label = IF Len(newRects) > 0
                      THEN LabelStyle(LabelCorner(newRects[1], newIframeOffset))
                      ELSE [t.label EXCEPT !.display = "none"]]

updatePositions(t) ==
  Positioned(t, getClientRects(t.element, t.scrollY, t.wide),
             iframeOffset(t.parentIframe, t.scrollY))

\* what the listener saw: the state before the event, and whether
\* updatePositions was called
Observed(t, before, outcome) ==
  [t EXCEPT !.outcome = outcome, !.eventAt = before.now,
            !.lastRun = IF outcome = "ran" THEN before.now ELSE before.lastRun,
            !.prev = [boxes |-> before.boxes, label |-> before.label,
                      lastRun |-> before.lastRun]]

throttledUpdatePositions_NoThrottle(t) ==
  Observed(updatePositions([t EXCEPT !.lastCall = t.now]), t, "ran")

\* const now = performance.now(); if (now - lastCall < delay) return;
\* lastCall = now; return func(...args)
throttledUpdatePositions(t) ==
  IF t.now - t.lastCall < delay
  THEN Observed(t, t, "dropped")
  ELSE Observed(updatePositions([t EXCEPT !.lastCall = t.now]), t, "ran")

-----------------------------------------------------------------------------
(* The live document and the XPath of an element *)

\* the boxes and labels in the container, in the order highlightElement
\* appended them: by run, by index, the boxes of an element before its label
AppendedBefore(a, b) ==
  \/ a.handle.run < b.handle.run
  \/ a.handle.run = b.handle.run /\ a.handle.index < b.handle.index
  \/ /\ a.handle = b.handle
     /\ a.part = "box"
     /\ (b.part = "label" \/ a.rect < b.rect)

FirstAppended(S) == CHOOSE a \in S : \A b \in S \ {a} : AppendedBefore(a, b)

RECURSIVE InAppendOrder(_)
InAppendOrder(S) ==
  IF S = {} THEN <<>>
  ELSE <<FirstAppended(S)>> \o InAppendOrder(S \ {FirstAppended(S)})

\* the i-th child of the container as a node of the document
PartNode(i) == NoNode - i
IsPartNode(n) == n < NoNode
PartOf(pg, n) == InAppendOrder(pg.overlays)[NoNode - n]

\* element.children in the document as it is now: the container is the last
\* child of the body, the boxes and labels are the children of the container
LiveChildren(pg, n) ==
  IF IsPartNode(n) THEN <<>>
  ELSE IF n = ContainerNode THEN [i \in 1..Cardinality(pg.overlays) |-> PartNode(i)]
  ELSE IF n = Body /\ pg.containers > 0 THEN El(Body).children \o <<ContainerNode>>
  ELSE El(n).children

LiveParent(n) == IF IsPartNode(n) THEN ContainerNode ELSE El(n).parentElement
LiveTagName(n) == IF IsPartNode(n) THEN "div" ELSE El(n).tagName

IndexOf(seq, x) == CHOOSE i \in DOMAIN seq : seq[i] = x

\* the children of the parent with the element's tag name
SameTagSiblings(pg, n) ==
  SelectSeq(LiveChildren(pg, LiveParent(n)), LAMBDA c : LiveTagName(c) = LiveTagName(n))

\* 0 for a root or an only child of its tag, else the 1-based position
\* among the siblings of the same tag
getElementPosition(pg, n) ==
  IF LiveParent(n) = NoNode THEN 0
  ELSE IF Len(SameTagSiblings(pg, n)) = 1 THEN 0
  ELSE IndexOf(SameTagSiblings(pg, n), n)

Segment(tag, position) == [tag |-> tag, position |-> position]

\* the segments of the XPath from the document's root element down to n, in
\* the document as it is when the element is visited.  The loop stops before
\* a node whose parent is an instance of the ShadowRoot of the window the
\* analysis runs in: a shadow root of the top document.  A shadow root in a
\* frame's document is no such instance: the node below it gets its
\* segment, and the loop ends at the shadow root, which is no element
RECURSIVE getXPathTree(_, _)
getXPathTree(pg, n) ==
  IF n = NoNode THEN <<>>
  ELSE IF n = Body \/ IsIframeBody(n) THEN <<Segment("html", 0), Segment("body", 0)>>
  ELSE IF LiveParent(n) = NoNode
  THEN (IF El(n).inIframe
        THEN <<Segment(LiveTagName(n), getElementPosition(pg, n))>>
        ELSE <<>>)
  ELSE getXPathTree(pg, LiveParent(n))
         \o <<Segment(LiveTagName(n), getElementPosition(pg, n))>>

-----------------------------------------------------------------------------
(* DOM_CACHE: the browser's geometry and style calls of one run *)

\* three empty WeakMaps (the keys of each are kept)
NoCache == [boundingRects |-> {}, clientRects |-> {}, computedStyles |-> {}]

\* one invocation of a browser method on an element, in call order
Invoked(ctx, api, element) == [ctx EXCEPT !.calls = Append(@, <<api, element>>)]

getCachedBoundingRect(ctx, element) ==
  IF element = NoNode \/ element \in ctx.cache.boundingRects THEN ctx
  ELSE Invoked([ctx EXCEPT !.cache.boundingRects = @ \cup {element}],
               "getBoundingClientRect", element)

getCachedComputedStyle(ctx, element) ==
  IF element = NoNode \/ element \in ctx.cache.computedStyles THEN ctx
  ELSE Invoked([ctx EXCEPT !.cache.computedStyles = @ \cup {element}],
               "getComputedStyle", element)

getCachedClientRects(ctx, element) ==
  IF element = NoNode \/ element \in ctx.cache.clientRects THEN ctx
  ELSE Invoked([ctx EXCEPT !.cache.clientRects = @ \cup {element}],
               "getClientRects", element)

\* DOM_CACHE.clearCache()
clearCache(ctx) == [ctx EXCEPT !.cache = NoCache]

\* the calls of isInExpandedViewport: element.getClientRects() itself, and
\* the cached bounding rect when there are no client rects
InExpandedViewportCalls(ctx, element, viewportExpansion) ==
  IF viewportExpansion = -1 THEN ctx
  ELSE IF El(element).clientRects = <<>>
  THEN getCachedBoundingRect(Invoked(ctx, "getClientRects", element), element)
  ELSE Invoked(ctx, "getClientRects", element)

\* the calls of highlightElement: element.getClientRects() itself, and
\* parentIframe.getBoundingClientRect() itself when there are rects
HighlightElementCalls(ctx, element, parentIframe) ==
  IF El(element).clientRects = <<>> \/ parentIframe = NoNode
  THEN Invoked(ctx, "getClientRects", element)
  ELSE Invoked(Invoked(ctx, "getClientRects", element),
               "getBoundingClientRect", parentIframe)

\* [...element.children].some(isElementVisible)
RECURSIVE SomeVisibleCalls(_, _)
SomeVisibleCalls(ctx, kids) ==
  IF kids = <<>> THEN ctx
  ELSE IF isElementVisible(Head(kids)) THEN getCachedComputedStyle(ctx, Head(kids))
  ELSE SomeVisibleCalls(getCachedComputedStyle(ctx, Head(kids)), Tail(kids))

\* the calls of isHeuristicallyInteractive: isElementVisible, the children's
\* isElementVisible, isInteractiveElement
HeuristicCalls(ctx, n) ==
  IF ~isElementVisible(n) THEN getCachedComputedStyle(ctx, n)
  ELSE getCachedComputedStyle(
         SomeVisibleCalls(getCachedComputedStyle(ctx, n), El(n).children), n)

\* the calls of isElementDistinctInteraction, which reaches the heuristic
\* only when no earlier test has returned
DistinctInteractionCalls(ctx, n) ==
  IF \/ El(n).tagName = "iframe"
     \/ El(n).tagName \in DISTINCT_INTERACTIVE_TAGS
     \/ \E r \in INTERACTIVE_ROLES : <<"role", r>> \in El(n).attrs
     \/ isContentEditable(n)
     \/ \E a \in {"data-testid", "data-cy", "data-test", "onclick"} : hasAttribute(n, a)
     \/ \E a \in commonEventAttrs : hasAttribute(n, a)
  THEN ctx
  ELSE HeuristicCalls(ctx, n)

\* the early viewport check asks for the bounding rect
EarlyCheckCalls(ctx, args, node) ==
  IF args.viewportExpansion # -1 /\ ~El(node).shadowRoot
  THEN getCachedBoundingRect(ctx, node)
  ELSE ctx

\* isTopElement asks for the client rects unless the viewport is unbounded
TopElementCalls(ctx, args, node) ==
  IF args.viewportExpansion = -1 THEN ctx ELSE getCachedClientRects(ctx, node)

\* isElementVisible, then for a visible element isInteractiveElement and
\* isTopElement
ClassifiedCalls(ctx, args, node, visible) ==
  IF visible
  THEN TopElementCalls(getCachedComputedStyle(getCachedComputedStyle(ctx, node), node),
                       args, node)
  ELSE getCachedComputedStyle(ctx, node)

\* the test for an empty anchor asks for the bounding rect
EmptyAnchorCalls(ctx, nodeData, node) ==
  IF /\ nodeData.tagName = "a"
     /\ Len(nodeData.children) = 0
     /\ ~\E p \in nodeData.attributes : p[1] = "href" /\ p[2] # ""
  THEN getCachedBoundingRect(ctx, node)
  ELSE ctx

-----------------------------------------------------------------------------
(* Highlight indexer *)

NewContext_KeepsCounters(pg, run) ==
  [ID |-> trace.ID, highlightIndex |-> trace.highlightIndex, map |-> <<>>,
   page |-> pg, run |-> run, alloc |-> <<>>, cache |-> NoCache, calls |-> <<>>]

\* The state of one run: ID.current, highlightIndex, DOM_HASH_MAP, the page,
\* and (for the record) the nodes in the order handleHighlighting gave them
\* an index.
NewContext(pg, run) ==
  [ID |-> 0, highlightIndex |-> 0, map |-> <<>>, page |-> pg, run |-> run,
   alloc |-> <<>>, cache |-> NoCache, calls |-> <<>>]

\* DOM_HASH_MAP[id] = nodeData, the map being a function from ids to records
\* and <<>> the empty object
MapPut(map, id, nodeData) ==
  [k \in DOMAIN map \cup {id} |-> IF k = id THEN nodeData ELSE map[k]]

Handled(nodeData, ctx, highlighted) ==
  [nodeData |-> nodeData, ctx |-> ctx, highlighted |-> highlighted]

TakeHighlightIndex_NoIncrement(ctx, node) ==
  [ctx EXCEPT !.alloc = Append(@, node)]

\* highlightIndex++ (the value read before the step is the node's index)
TakeHighlightIndex(ctx, node) ==
  [ctx EXCEPT !.highlightIndex = @ + 1, !.alloc = Append(@, node)]

Draw_IgnoresFocus(ctx, args, node, index, parentIframe) ==
  IF args.doHighlightElements
  THEN [HighlightElementCalls(ctx, node, parentIframe)
          EXCEPT !.page = highlightElement(@, ctx.run, node, index, parentIframe)]
  ELSE ctx

\* if (doHighlightElements) { focus filter; highlightElement(...) }
Draw(ctx, args, node, index, parentIframe) ==
  IF /\ args.doHighlightElements
     /\ (args.focusHighlightIndex >= 0 => args.focusHighlightIndex = index)
  THEN [HighlightElementCalls(ctx, node, parentIframe)
          EXCEPT !.page = highlightElement(@, ctx.run, node, index, parentIframe)]
  ELSE ctx

\* the branch of handleHighlighting taken when shouldHighlight is true
HighlightSelected(ctx, args, nodeData, node, parentIframe, inViewport) ==
  IF inViewport \/ args.viewportExpansion = -1
  THEN Handled([nodeData EXCEPT !.isInViewport = inViewport,
                                !.highlightIndex = ctx.highlightIndex],
               Draw(TakeHighlightIndex(ctx, node), args, node, ctx.highlightIndex,
                    parentIframe),
               args.doHighlightElements)
  ELSE Handled([nodeData EXCEPT !.isInViewport = inViewport], ctx, FALSE)

handleHighlighting(ctx, args, nodeData, node, parentIframe, isParentHighlighted) ==
  IF ~nodeData.isInteractive THEN Handled(nodeData, ctx, FALSE)
  ELSE IF isParentHighlighted /\ ~isElementDistinctInteraction(node)
  THEN Handled(nodeData, DistinctInteractionCalls(ctx, node), FALSE)
  ELSE HighlightSelected(InExpandedViewportCalls(
                           IF isParentHighlighted
                           THEN DistinctInteractionCalls(ctx, node) ELSE ctx,
                           node, args.viewportExpansion),
                         args, nodeData, node, parentIframe,
                         isInExpandedViewport(node, args.viewportExpansion))

-----------------------------------------------------------------------------
(* Tree builder *)

NodeData(node, tag, attrs, text, visible, top, inViewport, shadow) ==
  [node |-> node, tagName |-> tag, attributes |-> attrs, xpath |-> <<>>,
   children |-> <<>>,
   text |-> text, isVisible |-> visible, isTopElement |-> top,
   isInteractive |-> FALSE, isInViewport |-> inViewport, shadowRoot |-> shadow,
   highlightIndex |-> Undefined]

BodyNodeData_Classified(node) ==
  [NodeData(node, "body", {}, "", isElementVisible(node), FALSE, FALSE, FALSE)
     EXCEPT !.xpath = getXPathTree(FreshPage, node)]

\* the record built for document.body (the path of a body does not depend
\* on what the document holds)
BodyNodeData(node) ==
  [NodeData(node, "body", {}, "", TRUE, TRUE, TRUE, FALSE)
     EXCEPT !.xpath = getXPathTree(FreshPage, node)]

\* the record of a text node
TextNodeData(args, node) ==
  NodeData(node, "#text", {}, El(node).text, TRUE, FALSE,
           isInExpandedViewport(El(node).parentElement, args.viewportExpansion), FALSE)

\* the record of an element before it is classified; its XPath is taken in
\* the document as it is when the element is visited
ElementNodeData(pg, node) ==
  [NodeData(node, El(node).tagName,
            IF isInteractiveCandidate(node) \/ El(node).tagName \in {"iframe", "body"}
            THEN El(node).attrs ELSE {},
            "", FALSE, FALSE, FALSE, El(node).shadowRoot)
     EXCEPT !.xpath = getXPathTree(pg, node)]

Built(id, ctx) == [id |-> id, ctx |-> ctx]

Emit_NoIncrement(ctx, nodeData) ==
  Built(ctx.ID, [ctx EXCEPT !.map = MapPut(@, ctx.ID, nodeData)])

\* const id = `${ID.current++}`; DOM_HASH_MAP[id] = nodeData; return id
Emit(ctx, nodeData) ==
  Built(ctx.ID, [ctx EXCEPT !.ID = @ + 1, !.map = MapPut(@, ctx.ID, nodeData)])

IsEmptyAnchor_IgnoresChildren(nodeData, node) ==
  /\ nodeData.tagName = "a"
  /\ ~\E p \in nodeData.attributes : p[1] = "href" /\ p[2] # ""
  /\ El(node).boundingRect.width = 0
  /\ El(node).boundingRect.height = 0

\* the test that drops an empty anchor after its subtree has been walked
IsEmptyAnchor(nodeData, node) ==
  /\ nodeData.tagName = "a"
  /\ Len(nodeData.children) = 0
  /\ ~\E p \in nodeData.attributes : p[1] = "href" /\ p[2] # ""
  /\ El(node).boundingRect.width = 0
  /\ El(node).boundingRect.height = 0

IsCollapsed_Never(args, node) == FALSE

\* the early viewport check
IsCollapsed(args, node) ==
  /\ args.viewportExpansion # -1
  /\ ~El(node).shadowRoot
  /\ El(node).boundingRect.width = 0
  /\ El(node).boundingRect.height = 0

Classified_IgnoresVisibility(args, nodeData, node, visible) ==
  [nodeData EXCEPT !.isVisible = visible,
                   !.isInteractive = isInteractiveElement(node),
                   !.isTopElement = isTopElement(args, node)]

\* isVisible, isInteractive and isTopElement of an element
Classified(args, nodeData, node, visible) ==
  [nodeData EXCEPT !.isVisible = visible,
                   !.isInteractive = visible /\ isInteractiveElement(node),
                   !.isTopElement = visible /\ isTopElement(args, node)]

HighlightIfInteractiveTop(ctx, args, classified, node, parentIframe, isParentHighlighted) ==
  IF classified.isInteractive /\ classified.isTopElement
  THEN handleHighlighting(ctx, args, classified, node, parentIframe, isParentHighlighted)
  ELSE Handled(classified, ctx, FALSE)

\* the classification of an element: visibility, interactivity, top, highlight
Classify(ctx, args, nodeData, node, parentIframe, isParentHighlighted) ==
  HighlightIfInteractiveTop(ClassifiedCalls(ctx, args, node, isElementVisible(node)),
                            args,
                            Classified(args, nodeData, node, isElementVisible(node)),
                            node, parentIframe, isParentHighlighted)

Walked(kids, ctx) == [children |-> kids, ctx |-> ctx]

IsHighlightContainer_Never(node) == FALSE

\* node.id === HIGHLIGHT_CONTAINER_ID
IsHighlightContainer(node) == <<"id", HIGHLIGHT_CONTAINER_ID>> \in El(node).attrs

RECURSIVE buildDomTree(_, _, _, _, _)
RECURSIVE BuildChildren(_, _, _, _, _, _)

\* one turn of the loop over child nodes: push the id unless it is null
NextChild(args, rest, parentIframe, isParentHighlighted, acc, r) ==
  BuildChildren(r.ctx, args, rest, parentIframe, isParentHighlighted,
                IF r.id # Null THEN Append(acc, r.id) ELSE acc)

\* for (const child of kids) { id = buildDomTree(child, ...); if (id !== null) push }
BuildChildren(ctx, args, kids, parentIframe, isParentHighlighted, acc) ==
  IF kids = <<>> THEN Walked(acc, ctx)
  ELSE NextChild(args, Tail(kids), parentIframe, isParentHighlighted, acc,
                 buildDomTree(ctx, args, Head(kids), parentIframe, isParentHighlighted))

\* body.childNodes is live: a container appended to the body during the walk
\* is its last entry
BodyLastChild(args, parentIframe, kids) ==
  IF kids.ctx.page.containers > 0
  THEN BuildChildren(kids.ctx, args, <<ContainerNode>>, parentIframe, FALSE, kids.children)
  ELSE kids

EmitBody(node, walked) ==
  Emit(walked.ctx, [BodyNodeData(node) EXCEPT !.children = walked.children])

\* the special case for document.body
BuildBody(ctx, args, node, parentIframe) ==
  EmitBody(node, BodyLastChild(args, parentIframe,
                   BuildChildren(ctx, args, El(node).childNodes, parentIframe, FALSE, <<>>)))

LightChildren_EntersCrossOrigin(args, node, parentIframe, c) ==
  IF El(node).tagName = "iframe"
  THEN BuildChildren(c.ctx, args, <<-node>>, node, c.highlighted, <<>>)
  ELSE BuildChildren(c.ctx, args, El(node).childNodes, parentIframe, c.highlighted, <<>>)

\* the children of an element: the body of a same-origin frame (for a
\* cross-origin frame contentDocument is null and contentWindow.document
\* throws, which the catch swallows), or the child nodes
LightChildren(args, node, parentIframe, c) ==
  IF El(node).tagName = "iframe" THEN
    IF El(node).frame = "same"
    THEN BuildChildren(c.ctx, args, <<-node>>, node, c.highlighted, <<>>)
    ELSE Walked(<<>>, c.ctx)
  ELSE BuildChildren(c.ctx, args, El(node).childNodes, parentIframe, c.highlighted, <<>>)

\* shadow children follow the light children
ShadowChildren(args, node, parentIframe, c, light) ==
  IF El(node).shadowRoot
  THEN BuildChildren(light.ctx, args, El(node).shadowChildNodes, parentIframe,
                     c.highlighted, light.children)
  ELSE light

EmitUnlessEmptyAnchor(ctx, nodeData, node) ==
  IF IsEmptyAnchor(nodeData, node)
  THEN Built(Null, EmptyAnchorCalls(ctx, nodeData, node))
  ELSE Emit(EmptyAnchorCalls(ctx, nodeData, node), nodeData)

Finish(node, c, walked) ==
  EmitUnlessEmptyAnchor(walked.ctx, [c.nodeData EXCEPT !.children = walked.children], node)

WalkShadow(args, node, parentIframe, c, light) ==
  Finish(node, c, ShadowChildren(args, node, parentIframe, c, light))

WalkElement(args, node, parentIframe, c) ==
  WalkShadow(args, node, parentIframe, c, LightChildren(args, node, parentIframe, c))

buildDomTree(ctx, args, node, parentIframe, isParentHighlighted) ==
  IF node = NoNode \/ IsHighlightContainer(node)
  THEN Built(Null, ctx)
  ELSE IF node = Body THEN BuildBody(ctx, args, node, parentIframe)
  ELSE IF El(node).nodeType \notin {"element", "text"} THEN Built(Null, ctx)
  ELSE IF El(node).nodeType = "text" THEN
    IF El(node).text = "" \/ ~isTextNodeVisible(args, node)
    THEN Built(Null, ctx)
    ELSE Emit(InExpandedViewportCalls(ctx, El(node).parentElement,
                                      args.viewportExpansion),
              TextNodeData(args, node))
  ELSE IF ~isElementAccepted(node) THEN Built(Null, ctx)
  ELSE IF IsCollapsed(args, node) THEN Built(Null, EarlyCheckCalls(ctx, args, node))
  ELSE WalkElement(args, node, parentIframe,
                   Classify(EarlyCheckCalls(ctx, args, node), args,
                            ElementNodeData(ctx.page, node), node, parentIframe,
                            isParentHighlighted))

-----------------------------------------------------------------------------
(* Result assembler and entry points *)

NoResult ==
  [rootId |-> Null, map |-> <<>>, totalElements |-> 0, highlightedElements |-> 0,
   interactiveElements |-> <<>>]

defaultArgs ==
  [doHighlightElements |-> TRUE, focusHighlightIndex |-> -1, viewportExpansion |-> 0]

NoTrace == [call |-> "none", before |-> FreshPage, args |-> defaultArgs, ID |-> 0,
            highlightIndex |-> 0, alloc |-> <<>>, calls |-> <<>>, cache |-> NoCache]

\* Object.values(DOM_HASH_MAP).filter(node => node.highlightIndex !== undefined)
Highlighted(map) == {k \in DOMAIN map : map[k].highlightIndex # Undefined}

\* String.prototype.trim, for texts whose only white space is the space
RECURSIVE trimStart(_)
trimStart(s) == IF s # "" /\ Head(s) = " " THEN trimStart(Tail(s)) ELSE s

RECURSIVE trimEnd(_)
trimEnd(s) ==
  IF s # "" /\ SubSeq(s, Len(s), Len(s)) = " "
  THEN trimEnd(SubSeq(s, 1, Len(s) - 1))
  ELSE s

trim(s) == trimEnd(trimStart(s))

\* s.substring(0, end)
substring(s, end) == SubSeq(s, 1, Min(end, Len(s)))

RECURSIVE getElementText(_, _)
RECURSIVE ChildrenText(_, _)

\* the loop over nodeData.children: each child's text followed by a space
ChildrenText(map, kids) ==
  IF kids = <<>> THEN ""
  ELSE IF Head(kids) \notin DOMAIN map THEN ChildrenText(map, Tail(kids))
  ELSE IF map[Head(kids)].tagName = "#text" /\ map[Head(kids)].text # ""
  THEN map[Head(kids)].text \o " " \o ChildrenText(map, Tail(kids))
  ELSE getElementText(map, map[Head(kids)]) \o " " \o ChildrenText(map, Tail(kids))

getElementText_NoLimit(map, nodeData) ==
  IF nodeData.text # "" THEN nodeData.text
  ELSE trim(ChildrenText(map, nodeData.children))

\* the record's own text, else the text of its children, trimmed and cut
getElementText(map, nodeData) ==
  IF nodeData.text # "" THEN nodeData.text
  ELSE substring(trim(ChildrenText(map, nodeData.children)), 100)

\* an entry of interactiveElements (its description is left out)
InteractiveElement(map, nodeData) ==
  [index |-> nodeData.highlightIndex, tagName |-> nodeData.tagName,
   xpath |-> nodeData.xpath, text |-> getElementText(map, nodeData),
   attributes |-> nodeData.attributes, isVisible |-> nodeData.isVisible,
   isInViewport |-> nodeData.isInViewport, node |-> nodeData.node]

\* highlightedElements.map(...).sort((a, b) => a.index - b.index)
RECURSIVE SortedByIndex(_, _)
SortedByIndex(map, ks) ==
  IF ks = {} THEN <<>>
  ELSE LET k == CHOOSE x \in ks :
                  \A y \in ks : map[x].highlightIndex <= map[y].highlightIndex
       IN <<InteractiveElement(map, map[k])>> \o SortedByIndex(map, ks \ {k})

\* the result object, the page the run leaves (window.cleanupHighlights is
\* set), and the final counters
Assemble(pg, args, r) ==
  [result |-> [rootId |-> r.id, map |-> r.ctx.map,
               totalElements |-> Cardinality(DOMAIN r.ctx.map),
               highlightedElements |-> Cardinality(Highlighted(r.ctx.map)),
               interactiveElements |-> SortedByIndex(r.ctx.map, Highlighted(r.ctx.map))],
   page |-> [r.ctx.page EXCEPT !.cleanupDefined = TRUE],
   trace |-> [call |-> "analyzePage", before |-> pg, args |-> args, ID |-> r.ctx.ID,
              highlightIndex |-> r.ctx.highlightIndex, alloc |-> r.ctx.alloc,
              calls |-> r.ctx.calls, cache |-> clearCache(r.ctx).cache]]

\* analyzePage(args) on page state pg, as run number run
analyzePage(pg, run, args) ==
  Assemble(pg, args, buildDomTree(NewContext(pg, run), args, Body, NoNode, FALSE))

-----------------------------------------------------------------------------
(* Side panel (src/sidepanel.js): XPath and CSS path of a record's element *)

\* one step tag or tag[position] from one context node: the children with
\* the tag, or the one at the position among them
StepFrom(pg, context, step) ==
  IF step.position = 0
  THEN SelectSeq(LiveChildren(pg, context), LAMBDA c : LiveTagName(c) = step.tag)
  ELSE IF step.position <=
            Len(SelectSeq(LiveChildren(pg, context), LAMBDA c : LiveTagName(c) = step.tag))
  THEN <<SelectSeq(LiveChildren(pg, context),
                   LAMBDA c : LiveTagName(c) = step.tag)[step.position]>>
  ELSE <<>>

\* the step from every node of a node set, in document order
RECURSIVE StepFromAll(_, _, _)
StepFromAll(pg, contexts, step) ==
  IF contexts = <<>> THEN <<>>
  ELSE StepFrom(pg, Head(contexts), step) \o StepFromAll(pg, Tail(contexts), step)

\* the node set of a location path
RECURSIVE EvaluateFrom(_, _, _)
EvaluateFrom(pg, contexts, steps) ==
  IF contexts = <<>> \/ steps = <<>> THEN contexts
  ELSE EvaluateFrom(pg, StepFromAll(pg, contexts, Head(steps)), Tail(steps))

FirstOrNull(nodes) == IF nodes = <<>> THEN NoNode ELSE Head(nodes)

\* document.evaluate(xpath, document, ...).singleNodeValue in the top
\* document as it is now: the first node of the set; null for an empty path
\* (evaluate throws) and for a path that does not start at html/body
findElementByXPath(pg, xpath) ==
  IF Len(xpath) < 2 THEN NoNode
  ELSE IF SubSeq(xpath, 1, 2) # <<Segment("html", 0), Segment("body", 0)>> THEN NoNode
  ELSE FirstOrNull(EvaluateFrom(pg, <<Body>>, SubSeq(xpath, 3, Len(xpath))))

\* nodeElement.className and nodeElement.id ("" when not set)
classNameOf(pg, n) ==
  IF IsPartNode(n)
  THEN (IF PartOf(pg, n).part = "label" THEN "playwright-highlight-label" ELSE "")
  ELSE IF hasAttribute(n, "class") THEN getAttribute(n, "class") ELSE ""
idOf(n) ==
  IF IsPartNode(n) THEN ""
  ELSE IF hasAttribute(n, "id") THEN getAttribute(n, "id") ELSE ""

\* document.querySelectorAll('.' + class): the elements of the top document's
\* light tree with the class, the labels in the container among them
RECURSIVE InTopLightTree(_)
InTopLightTree(n) ==
  n = Body \/ (n \in NodeIds /\ El(n).parentElement # NoNode /\ InTopLightTree(El(n).parentElement))

WithClass(pg, cls) ==
  {n \in NodeIds : InTopLightTree(n) /\ El(n).nodeType = "element" /\ classNameOf(pg, n) = cls}
  \cup {PartNode(i) : i \in {j \in 1..Cardinality(pg.overlays) :
                               pg.containers > 0 /\ classNameOf(pg, PartNode(j)) = cls}}

\* one selector of the path: tag, then #id, or .class (the distinctive class,
\* or the only one: the elements of the model carry at most one class) and
\* :nth-child
Selector(tag, id, cls, nth) == [tag |-> tag, id |-> id, class |-> cls, nth |-> nth]

PathSelector(pg, n) ==
  Selector(LiveTagName(n), "", classNameOf(pg, n),
           IF LiveParent(n) # NoNode /\ Len(SameTagSiblings(pg, n)) > 1
           THEN IndexOf(SameTagSiblings(pg, n), n) ELSE 0)

\* while (current && current !== document.body) { ...; path.unshift(selector) }
RECURSIVE SelectorPath(_, _)
SelectorPath(pg, current) ==
  IF current = NoNode \/ current = Body THEN <<>>
  ELSE IF idOf(current) # "" THEN <<Selector(LiveTagName(current), idOf(current), "", 0)>>
  ELSE SelectorPath(pg, LiveParent(current)) \o <<PathSelector(pg, current)>>

\* generateCssSelector(node, nodeElement): the elements of the model carry at
\* most one class
generateCssSelector(pg, nodeElement) ==
  IF nodeElement = NoNode THEN <<>>
  ELSE IF idOf(nodeElement) # "" THEN <<Selector("", idOf(nodeElement), "", 0)>>
  ELSE IF /\ classNameOf(pg, nodeElement) # ""
          /\ WithClass(pg, classNameOf(pg, nodeElement)) = {nodeElement}
  THEN <<Selector("", "", classNameOf(pg, nodeElement), 0)>>
  ELSE SelectorPath(pg, nodeElement)

\* elementsCssData: highlightIndex -> CSS path, from the window.DOM_HASH_MAP
\* and the document found when the injected function runs
elementsCssData(pg, map) ==
  [i \in {map[k].highlightIndex : k \in Highlighted(map)} |->
     generateCssSelector(pg, findElementByXPath(pg,
       map[CHOOSE k \in Highlighted(map) : map[k].highlightIndex = i].xpath))]

-----------------------------------------------------------------------------
(* Side panel: the Analyze button and the results table *)

\* the panel when the document has loaded
NoPanel ==
  [disabled |-> FALSE, stage |-> "idle", settings |-> defaultArgs,
   table |-> <<>>, tasks |-> <<>>, visible |-> FALSE, cleanups |-> <<>>,
   populated |-> 0, unhandled |-> FALSE]

EmptyRow == [kind |-> "empty"]

\* a number in decimal digits
RECURSIVE decimal(_)
decimal(n) ==
  IF n < 10 THEN <<"0", "1", "2", "3", "4", "5", "6", "7", "8", "9">>[n + 1]
  ELSE decimal(n \div 10) \o decimal(n % 10)

\* strs.join(sep)
RECURSIVE join(_, _)
join(strs, sep) ==
  IF strs = <<>> THEN ""
  ELSE IF Len(strs) = 1 THEN strs[1]
  ELSE strs[1] \o sep \o join(Tail(strs), sep)

\* `${tagName}${xpathIndex}` and segments.join("/")
SegmentString(seg) ==
  IF seg.position > 0 THEN seg.tag \o "[" \o decimal(seg.position) \o "]" ELSE seg.tag
xpathString(xpath) == join([i \in DOMAIN xpath |-> SegmentString(xpath[i])], "/")

\* tag, #id or .class, :nth-child(index); path.join(' > ')
SelectorString(sel) ==
  sel.tag \o (IF sel.id # "" THEN "#" \o sel.id ELSE "")
          \o (IF sel.class # "" THEN "." \o sel.class ELSE "")
          \o (IF sel.nth > 0 THEN ":nth-child(" \o decimal(sel.nth) \o ")" ELSE "")
cssString(path) == join([i \in DOMAIN path |-> SelectorString(path[i])], " > ")

\* text.replace(/&/g, '&amp;').replace(/</g, '&lt;').replace(/>/g, '&gt;')
RECURSIVE escaped(_)
escaped(text) ==
  IF text = "" THEN ""
  ELSE (IF Head(text) = "&" THEN "&amp;"
        ELSE IF Head(text) = "<" THEN "&lt;"
        ELSE IF Head(text) = ">" THEN "&gt;"
        ELSE SubSeq(text, 1, 1)) \o escaped(Tail(text))

Ellipsis(text, maxLength) ==
  IF Len(text) > maxLength THEN SubSeq(text, 1, maxLength) \o "..." ELSE text

\* safeText(text, maxLength): escaped, and cut with an ellipsis when longer
safeText(text, maxLength) == Ellipsis(escaped(text), maxLength)

\* the title and the text content of a cell
Cell(text, maxLength) == [title |-> text, textContent |-> safeText(text, maxLength)]

\* a row of the table: index, tag name, XPath, CSS path and text cells
Row(element, cssPathData) ==
  [kind |-> "element", index |-> element.index, tagName |-> element.tagName,
   xpath |-> Cell(xpathString(element.xpath), 50),
   cssPath |-> Cell(IF element.index \in DOMAIN cssPathData
                    THEN cssString(cssPathData[element.index]) ELSE "", 50),
   text |-> Cell(element.text, 30)]

\* interactiveElements.forEach(element => { ...; tableBody.appendChild(row) })
Rows(elements, cssPathData) ==
  [i \in DOMAIN elements |-> Row(elements[i], cssPathData)]

\* a populateResultsTable call whose callback has not finished
Task(elements) == [elements |-> elements, stage |-> "query", cssPathData |-> <<>>]

\* populateResultsTable(interactiveElements) up to its return: the table is
\* cleared; with no element the placeholder row is added, else
\* chrome.tabs.query is called with the callback.  (unhandled tells that a
\* callback has ended without the paths of the tab since the table was
\* cleared.)
populateResultsTable(pn, elements) ==
  IF Len(elements) = 0
  THEN [pn EXCEPT !.table = <<EmptyRow>>, !.unhandled = FALSE]
  ELSE [pn EXCEPT !.table = <<>>, !.tasks = Append(@, Task(elements)),
                  !.unhandled = FALSE]

Without(tasks, i) == SubSeq(tasks, 1, i - 1) \o SubSeq(tasks, i + 1, Len(tasks))

-----------------------------------------------------------------------------
(* Pages *)

\* light-DOM pages: containers, interactive elements in and out of view,
\* hidden containers and collapsed anchors
LightKinds == {"div", "button", "span_ptr", "a_scaled", "div_hidden", "button_below"}

\* pages with frames, shadow roots, rejected elements and text
FrameKinds == {"button", "span_ptr", "script", "text", "iframe", "host"}

\* pages for the gates of an index: position, visibility, role, text
GateKinds == {"button", "button_below", "div_hidden", "div_role", "text", "iframe"}

\* pages with a hidden container: the button, the display:none div and the
\* anchor with href of the README-style scenario, and text
HiddenKinds == {"button", "div_hidden", "a_href", "text", "host_hidden"}

\* pages with same-origin and cross-origin frames
CrossOriginKinds == {"button", "iframe_xo", "iframe", "text"}

\* pages for the overlay life cycle
LifeKinds == {"button", "a_scaled"}

\* pages of elements that meet one or several of the interactivity conditions
InteractiveKinds ==
  {"button", "button_off", "div_cls", "div_edit", "div_onclick", "div_role", "div"}

\* pages of elements with and without the attributes of an interactive candidate
CandidateKinds == {"button", "div_aria", "div_tab", "div_cls", "div_onclick", "iframe"}

\* pages whose elements hold short and long texts, directly or nested
TextKinds == {"button", "span_ptr", "text", "text_long"}

\* pages of elements whose bounding rect has no area
CollapseKinds == {"div_flat", "host_empty", "div_hidden", "a_scaled", "button", "text"}

\* pages whose elements get an overlay that follows them: in the top
\* document, inside a frame, on one line or on two
ThrottleKinds == {"span_wrap", "iframe"}

\* pages shown in the side panel's table: elements indexed under one setting
\* and not under another
PanelKinds == {"button_below", "span_ptr"}

\* the ways to nest MaxNodes nodes: each is written inside the body or
\* inside an earlier node
Nestings == {p \in [NodeIds -> {Body} \cup NodeIds] : \A n \in NodeIds : p[n] < n}

\* a text node has nothing inside it
WellFormed(d) == \A n \in NodeIds : d.parent[n] # Body => d.kind[d.parent[n]] # "text"

Page(d) == [parent |-> d.parent, kind |-> d.kind, el |-> Browser(d)]

\* every page of MaxNodes nodes of the given kinds below the body
Pages(kinds) ==
  {Page(d) : d \in {e \in [parent : Nestings, kind : [NodeIds -> kinds]] : WellFormed(e)}}

-----------------------------------------------------------------------------
(* Actions *)

Returned(a) ==
  /\ result' = a.result
  /\ page' = a.page
  /\ trace' = a.trace

\* analyzePage(args) called in the page: by a console, Playwright or
\* Selenium script, or by the script the side panel sends to the tab
AnalyzePage(args) ==
  /\ Returned(analyzePage(page, runs + 1, args))
  /\ runs' = runs + 1
  /\ error' = FALSE
  /\ UNCHANGED <<dom, tracker, panel>>

\* cleanupHighlights() called by the embedding script (console, Playwright,
\* Selenium): a TypeError when window.cleanupHighlights is not set
CallCleanupHighlights ==
  /\ IF page.cleanupDefined
     THEN page' = cleanupHighlights(page) /\ error' = FALSE
     ELSE page' = page /\ error' = TRUE
  /\ trace' = [trace EXCEPT !.call = "cleanupHighlights", !.before = page]
  /\ UNCHANGED <<dom, result, runs, tracker, panel>>

\* click on Cleanup: the handler calls chrome.tabs.query and waits
CleanupClick ==
  /\ Len(panel.cleanups) < MaxCleanups
  /\ panel' = [panel EXCEPT !.cleanups = Append(@, "query")]
  /\ UNCHANGED <<dom, page, result, trace, runs, error, tracker>>

\* chrome.tabs.query answers: the handler sends its function to the tab
CleanupQueryAnswers(i) ==
  /\ i \in DOMAIN panel.cleanups
  /\ panel.cleanups[i] = "query"
  /\ panel' = [panel EXCEPT !.cleanups[i] = "script"]
  /\ UNCHANGED <<dom, page, result, trace, runs, error, tracker>>

\* the tab runs the function the handler injects: window.cleanupHighlights
\* when it is defined, else the fallback
TabRunsCleanup(i) ==
  /\ i \in DOMAIN panel.cleanups
  /\ panel.cleanups[i] = "script"
  /\ page' = IF page.cleanupDefined THEN cleanupHighlights(page) ELSE fallbackCleanup(page)
  /\ error' = FALSE
  /\ trace' = [trace EXCEPT !.call = "cleanupBtn", !.before = page]
  /\ panel' = [panel EXCEPT !.cleanups[i] = "ran"]
  /\ UNCHANGED <<dom, result, runs, tracker>>

\* the cleanup handler resumes: the results section is hidden
CleanupHandlerResumes(i) ==
  /\ i \in DOMAIN panel.cleanups
  /\ panel.cleanups[i] = "ran"
  /\ panel' = [panel EXCEPT !.visible = FALSE, !.cleanups = Without(@, i)]
  /\ UNCHANGED <<dom, page, result, trace, runs, error, tracker>>

\* chrome.tabs.query finds no tab, or executeScript rejects, before or after
\* the tab has run the function: the catch writes the status line and nothing
\* else, the results section stays as it is
CleanupFails(i) ==
  /\ i \in DOMAIN panel.cleanups
  /\ panel.cleanups[i] \in {"query", "script", "ran"}
  /\ panel' = [panel EXCEPT !.cleanups = Without(@, i)]
  /\ UNCHANGED <<dom, page, result, trace, runs, error, tracker>>

InitOn(kinds) ==
  /\ dom \in Pages(kinds)
  /\ page = FreshPage
  /\ result = NoResult
  /\ trace = NoTrace
  /\ runs = 0
  /\ error = FALSE
  /\ tracker = NoTracker
  /\ panel = NoPanel

\* the frame whose document holds node n: what buildDomTree passes as
\* parentIframe
RECURSIVE EnclosingIframe(_)
EnclosingIframe(n) ==
  IF n = NoNode \/ n = Body THEN NoNode
  ELSE IF IsIframeBody(n) THEN -n
  ELSE EnclosingIframe(Around(dom, n))

\* highlightElement(element, 0, parentIframe) for an element with client
\* rects: the overlay is built and its listeners are added
HighlightElement(element) ==
  /\ ~tracker.installed
  /\ El(element).nodeType = "element"
  /\ El(element).clientRects # <<>>
  /\ page' = highlightElement(page, 1, element, 0, EnclosingIframe(element))
  /\ tracker' = Tracking(tracker, element, EnclosingIframe(element),
                         getClientRects(element, tracker.scrollY, tracker.wide),
                         iframeOffset(EnclosingIframe(element), tracker.scrollY))
  /\ UNCHANGED <<dom, result, trace, runs, error, panel>>

\* time passes
Tick(d) ==
  /\ tracker.now + d <= MaxTime
  /\ tracker' = [tracker EXCEPT !.now = @ + d]
  /\ UNCHANGED <<dom, page, result, trace, runs, error, panel>>

\* the window scrolls to scrollY and the scroll listener is called
ScrollEvent(scrollY) ==
  /\ tracker.installed
  /\ tracker' = throttledUpdatePositions([tracker EXCEPT !.scrollY = scrollY])
  /\ UNCHANGED <<dom, page, result, trace, runs, error, panel>>

\* the window is resized and the resize listener is called
ResizeEvent(wide) ==
  /\ tracker.installed
  /\ tracker' = throttledUpdatePositions([tracker EXCEPT !.wide = wide])
  /\ UNCHANGED <<dom, page, result, trace, runs, error, panel>>

\* what the Analyze handler reads from the checkbox and the toggle
PanelSettings == {a \in Settings : a.focusHighlightIndex = -1}

\* click on Analyze: the button is disabled, the handler calls
\* chrome.tabs.query and waits
AnalyzeClick ==
  /\ ~panel.disabled
  /\ panel.stage = "idle"
  /\ runs < MaxRuns
  /\ panel' = [panel EXCEPT !.disabled = TRUE, !.stage = "query"]
  /\ UNCHANGED <<dom, page, result, trace, runs, error, tracker>>

\* chrome.tabs.query answers: the handler reads the checkbox and the toggle
\* as they are now and sends analyzePage.js to the tab
AnalyzeQueryAnswers(settings) ==
  /\ panel.stage = "query"
  /\ panel' = [panel EXCEPT !.stage = "files", !.settings = settings]
  /\ UNCHANGED <<dom, page, result, trace, runs, error, tracker>>

\* the tab loads analyzePage.js: window.analyzePage is defined
TabLoadsAnalyzePage ==
  /\ panel.stage = "files"
  /\ panel' = [panel EXCEPT !.stage = "loaded"]
  /\ UNCHANGED <<dom, page, result, trace, runs, error, tracker>>

\* the handler resumes and sends the call of window.analyzePage(settings)
AnalyzeHandlerSendsCall ==
  /\ panel.stage = "loaded"
  /\ panel' = [panel EXCEPT !.stage = "sent"]
  /\ UNCHANGED <<dom, page, result, trace, runs, error, tracker>>

\* the tab runs window.analyzePage(settings)
TabRunsAnalyzePage ==
  /\ panel.stage = "sent"
  /\ Returned(analyzePage(page, runs + 1, panel.settings))
  /\ runs' = runs + 1
  /\ error' = FALSE
  /\ panel' = [panel EXCEPT !.stage = "returned"]
  /\ UNCHANGED <<dom, tracker>>

\* the handler resumes with scriptResults: populateResultsTable is called
\* with the elements of this run, the results section is shown and, in
\* finally, the button is enabled
AnalyzeHandlerResumes ==
  /\ panel.stage = "returned"
  /\ panel' = [populateResultsTable(panel, result.interactiveElements)
                 EXCEPT !.disabled = FALSE, !.stage = "idle", !.visible = TRUE,
                        !.settings = defaultArgs, !.populated = runs]
  /\ UNCHANGED <<dom, page, result, trace, runs, error, tracker>>

\* the handler ends without calling populateResultsTable: chrome.tabs.query
\* finds no tab, an executeScript rejects (before or after the tab has run the
\* script), no result comes back, or a line that fills the summary throws.
\* The catch or the else branch writes the status line and, in finally, the
\* button is enabled
AnalyzeFails ==
  /\ panel.stage \in {"query", "files", "loaded", "sent", "returned"}
  /\ panel' = [panel EXCEPT !.disabled = FALSE, !.stage = "idle",
                            !.settings = defaultArgs]
  /\ UNCHANGED <<dom, page, result, trace, runs, error, tracker>>

\* the callback of chrome.tabs.query runs and sends the CSS path function
TabsQueryCallback(i) ==
  /\ i \in DOMAIN panel.tasks
  /\ panel.tasks[i].stage = "query"
  /\ panel' = [panel EXCEPT !.tasks[i].stage = "script"]
  /\ UNCHANGED <<dom, page, result, trace, runs, error, tracker>>

\* the tab runs the CSS path function on the window.DOM_HASH_MAP it finds
TabRunsCssPaths(i) ==
  /\ i \in DOMAIN panel.tasks
  /\ panel.tasks[i].stage = "script"
  /\ panel' = [panel EXCEPT !.tasks[i].stage = "fill",
                            !.tasks[i].cssPathData = elementsCssData(page, result.map)]
  /\ UNCHANGED <<dom, page, result, trace, runs, error, tracker>>

\* the callback resumes after the await and appends its rows
FillRows(i) ==
  /\ i \in DOMAIN panel.tasks
  /\ panel.tasks[i].stage = "fill"
  /\ panel' = [panel EXCEPT
                 !.table = @ \o Rows(panel.tasks[i].elements, panel.tasks[i].cssPathData),
                 !.tasks = Without(@, i)]
  /\ UNCHANGED <<dom, page, result, trace, runs, error, tracker>>

\* the executeScript of the callback answers without a result: the rows are
\* appended with the fallback {}, their CSS path cells empty
FillRowsWithoutPaths(i) ==
  /\ i \in DOMAIN panel.tasks
  /\ panel.tasks[i].stage \in {"script", "fill"}
  /\ panel' = [panel EXCEPT
                 !.table = @ \o Rows(panel.tasks[i].elements, <<>>),
                 !.tasks = Without(@, i),
                 !.unhandled = TRUE]
  /\ UNCHANGED <<dom, page, result, trace, runs, error, tracker>>

\* the callback throws, having no try: chrome.tabs.query handed it no tab, or
\* its executeScript rejects, before or after the tab has run the function.
\* No row is appended and nothing of the callback is left
TableCallbackFails(i) ==
  /\ i \in DOMAIN panel.tasks
  /\ panel' = [panel EXCEPT !.tasks = Without(@, i), !.unhandled = TRUE]
  /\ UNCHANGED <<dom, page, result, trace, runs, error, tracker>>

\* settings of a single analysis (no overlay is looked at: no focus filter)
TreeSettings == {a \in Settings : a.focusHighlightIndex = -1}

\* One analysis of a light-DOM page
Init == InitOn(LightKinds)
Next == runs = 0 /\ \E args \in TreeSettings : AnalyzePage(args)
Spec == Init /\ [][Next]_vars

\* One analysis of a page with frames, shadow roots, scripts and text
InitFrames == InitOn(FrameKinds)
SpecFrames == InitFrames /\ [][Next]_vars

\* One analysis of a page of elements that pass or fail the gates
InitGates == InitOn(GateKinds)
SpecGates == InitGates /\ [][Next]_vars

\* One analysis of a page with hidden containers
InitHidden == InitOn(HiddenKinds)
SpecHidden == InitHidden /\ [][Next]_vars

\* One analysis of a page with cross-origin frames
InitCrossOrigin == InitOn(CrossOriginKinds)
SpecCrossOrigin == InitCrossOrigin /\ [][Next]_vars

\* One analysis of a page of elements meeting interactivity conditions
InitInteractive == InitOn(InteractiveKinds)
SpecInteractive == InitInteractive /\ [][Next]_vars

\* One analysis of a page of interactive candidates and other elements
InitCandidates == InitOn(CandidateKinds)
SpecCandidates == InitCandidates /\ [][Next]_vars

\* One analysis of a page of elements without area
InitCollapse == InitOn(CollapseKinds)
SpecCollapse == InitCollapse /\ [][Next]_vars

\* One analysis of a page with short and long texts
InitText == InitOn(TextKinds)
SpecText == InitText /\ [][Next]_vars

\* One overlay followed through scroll and resize events.  performance.now()
\* counts from the page's time origin; the script runs some time after it.
StartTimes == {8, 40}
ScrollPositions == {0, 20}
InitThrottle ==
  /\ dom \in Pages(ThrottleKinds)
  /\ page = FreshPage
  /\ result = NoResult
  /\ trace = NoTrace
  /\ runs = 0
  /\ error = FALSE
  /\ tracker \in {[NoTracker EXCEPT !.now = t] : t \in StartTimes}
  /\ panel = NoPanel
NextThrottle ==
  \/ \E n \in NodeIds : HighlightElement(n)
  \/ \E d \in {8, 16} : Tick(d)
  \/ \E y \in ScrollPositions : ScrollEvent(y)
  \/ \E w \in BOOLEAN : ResizeEvent(w)
SpecThrottle == InitThrottle /\ [][NextThrottle]_vars

\* Analyze and Cleanup clicks in the side panel: each handler runs up to its
\* next await, and the tab and the table callbacks run in between
\* the pages of the panel: the nodes side by side in the body, or one inside
\* the other
PanelPages ==
  {d \in Pages(PanelKinds) :
     \/ \A n \in NodeIds : d.parent[n] = Body
     \/ \A n \in NodeIds : d.parent[n] = n - 1}
InitPanel ==
  /\ dom \in PanelPages
  /\ page = FreshPage
  /\ result = NoResult
  /\ trace = NoTrace
  /\ runs = 0
  /\ error = FALSE
  /\ tracker = NoTracker
  /\ panel = NoPanel
NextPanel ==
  \/ AnalyzeClick
  \/ \E settings \in PanelSettings : AnalyzeQueryAnswers(settings)
  \/ TabLoadsAnalyzePage
  \/ AnalyzeHandlerSendsCall
  \/ TabRunsAnalyzePage
  \/ AnalyzeHandlerResumes
  \/ AnalyzeFails
  \/ CleanupClick
  \/ \E i \in 1..MaxCleanups : CleanupQueryAnswers(i)
  \/ \E i \in 1..MaxCleanups : TabRunsCleanup(i)
  \/ \E i \in 1..MaxCleanups : CleanupHandlerResumes(i)
  \/ \E i \in 1..MaxCleanups : CleanupFails(i)
  \/ \E i \in 1..MaxRuns : TabsQueryCallback(i)
  \/ \E i \in 1..MaxRuns : TabRunsCssPaths(i)
  \/ \E i \in 1..MaxRuns : FillRows(i)
  \/ \E i \in 1..MaxRuns : FillRowsWithoutPaths(i)
  \/ \E i \in 1..MaxRuns : TableCallbackFails(i)
SpecPanel == InitPanel /\ [][NextPanel]_vars

\* Analyses and cleanups in any order: calls in the page, and the Cleanup
\* button of the side panel
InitLife == InitOn(LifeKinds)
NextLife ==
  \/ runs < MaxRuns /\ \E args \in Settings : AnalyzePage(args)
  \/ CallCleanupHighlights
  \/ CleanupClick
  \/ \E i \in 1..MaxCleanups : CleanupQueryAnswers(i)
  \/ \E i \in 1..MaxCleanups : TabRunsCleanup(i)
  \/ \E i \in 1..MaxCleanups : CleanupHandlerResumes(i)
  \/ \E i \in 1..MaxCleanups : CleanupFails(i)
SpecLife == InitLife /\ [][NextLife]_vars

-----------------------------------------------------------------------------
(* The document as the traversal meets it *)

\* the nodes the walk goes to from n: the content body of a same-origin
\* frame, else the child nodes followed by the shadow root's child nodes
WalkedFrom(n) ==
  IF El(n).frame = "same" THEN <<-n>>
  ELSE IF El(n).frame = "cross" THEN <<>>
  ELSE El(n).childNodes \o El(n).shadowChildNodes

\* depth-first pre-order: a node, then what is below it, then its later siblings
RECURSIVE PreOrder(_)
PreOrder(nodes) ==
  IF nodes = <<>> THEN <<>>
  ELSE <<Head(nodes)>> \o PreOrder(WalkedFrom(Head(nodes))) \o PreOrder(Tail(nodes))

\* position of node n in the pre-order of the whole document
Rank(n) == CHOOSE i \in DOMAIN PreOrder(<<Body>>) : PreOrder(<<Body>>)[i] = n

\* the keys of the returned map and the records that carry an index
Keys == DOMAIN result.map
Indexed == {k \in Keys : result.map[k].highlightIndex # Undefined}
IndicesInMap == {result.map[k].highlightIndex : k \in Indexed}

\* the key under which node n has its record, when it has one
HasRecord(n) == \E k \in Keys : result.map[k].node = n
KeyOf(n) == CHOOSE k \in Keys : result.map[k].node = n

\* the nodes handleHighlighting gave an index, in any order
Allocated == {trace.alloc[i] : i \in DOMAIN trace.alloc}

\* a run has returned
Analyzed == runs > 0

-----------------------------------------------------------------------------
(* Properties of the returned map *)

\* C1: in the returned map the highlightIndex values are pairwise distinct, and
\* of two records that carry one, the record of the node met earlier in the
\* depth-first pre-order (frame and shadow content included) has the smaller.
C1_IndicesDistinctInPreOrder ==
  \A j, k \in Indexed :
    j # k =>
      /\ result.map[j].highlightIndex # result.map[k].highlightIndex
      /\ Rank(result.map[j].node) < Rank(result.map[k].node)
           => result.map[j].highlightIndex < result.map[k].highlightIndex

\* node n is a child of a shadow root
UnderShadowRoot(n) ==
  n \in NodeIds /\ dom.parent[n] \in NodeIds /\ El(dom.parent[n]).shadowRoot

\* C1 witness: two indexed records in one map, the earlier node inside a frame
\* and the later one under a shadow root
C1_IndexedInFrameAndShadow ==
  \E j, k \in Indexed :
    /\ result.map[j].highlightIndex < result.map[k].highlightIndex
    /\ El(result.map[j].node).inIframe
    /\ UnderShadowRoot(result.map[k].node)

\* C2: the indices in the map are exactly 0 .. highlightedElements-1, and every
\* index the run's counter gave out is carried by exactly one record.
C2_IndicesContiguousFromZero ==
  Analyzed =>
    /\ IndicesInMap = 0 .. (result.highlightedElements - 1)
    /\ \A i \in 0 .. (trace.highlightIndex - 1) :
         Cardinality({k \in Indexed : result.map[k].highlightIndex = i}) = 1

\* C3: every id in a children array is a key of the map, no id is given to two
\* records, and the keys are exactly 0 .. totalElements-1, one per id allocated.
C3_IdsDenseAndChildrenResolve ==
  /\ \A k \in Keys :
       \A i \in DOMAIN result.map[k].children : result.map[k].children[i] \in Keys
  /\ Keys = 0 .. (result.totalElements - 1)
  /\ trace.ID = result.totalElements
  /\ \A j, k \in Keys : result.map[j].node = result.map[k].node => j = k

\* C3 witness: a map of several records, some with children, from a page where
\* a node was left out
C3_RecordsWithChildrenAndOmission ==
  /\ result.totalElements >= 3
  /\ \E k \in Keys : k # result.rootId /\ Len(result.map[k].children) > 0
  /\ \E n \in NodeIds : ~HasRecord(n)

\* the keys that list k among their children, and how often key p lists k
ParentsOf(k) ==
  {p \in Keys : \E i \in DOMAIN result.map[p].children : result.map[p].children[i] = k}
TimesListed(p, k) ==
  Cardinality({i \in DOMAIN result.map[p].children : result.map[p].children[i] = k})

ChildKeys(p) == {result.map[p].children[i] : i \in DOMAIN result.map[p].children}

\* the keys within the given number of steps below the keys of S
RECURSIVE Below(_, _)
Below(S, steps) ==
  IF steps = 0 THEN S
  ELSE Below(S \cup UNION {ChildKeys(p) : p \in S \cap Keys}, steps - 1)

\* C4: the children relation is a tree: rootId is in no children array, every
\* other key is in exactly one children array exactly once, every key is
\* reachable from rootId, and a child's id is smaller than its parent's.
C4_ChildrenFormTree ==
  Analyzed =>
    /\ result.rootId \in Keys
    /\ ParentsOf(result.rootId) = {}
    /\ \A k \in Keys \ {result.rootId} :
         /\ Cardinality(ParentsOf(k)) = 1
         /\ \A p \in ParentsOf(k) : TimesListed(p, k) = 1 /\ k < p
    /\ Below({result.rootId}, Cardinality(Keys)) = Keys

\* C4 witness: a tree three levels deep returned by a run that dropped an
\* empty anchor
C4_DeepTreeAfterDroppedAnchor ==
  /\ Analyzed
  /\ \E k \in Keys : \E p \in ParentsOf(k) : ParentsOf(p) # {}
  /\ \E n \in NodeIds : El(n).tagName = "a" /\ ~HasRecord(n)

\* C5: rootId is the key of the top document body's record, which has tagName
\* body, isVisible = isTopElement = isInViewport = true, isInteractive = false,
\* empty attributes and no highlightIndex, whatever the settings.
C5_RootIsBodyRecord ==
  Analyzed =>
    /\ result.rootId \in Keys
    /\ result.map[result.rootId].node = Body
    /\ result.map[result.rootId].tagName = "body"
    /\ result.map[result.rootId].isVisible
    /\ result.map[result.rootId].isTopElement
    /\ result.map[result.rootId].isInViewport
    /\ ~result.map[result.rootId].isInteractive
    /\ result.map[result.rootId].attributes = {}
    /\ result.map[result.rootId].highlightIndex = Undefined

\* C5 witness: a run with highlighting on and the viewport gate in force whose
\* body record has children and whose map has indexed records
C5_RootOfHighlightedRun ==
  /\ Analyzed
  /\ trace.args.doHighlightElements
  /\ trace.args.viewportExpansion = 0
  /\ Len(result.map[result.rootId].children) > 0
  /\ Indexed # {}

\* C6: as in the README's output format, rootId is "0", the body record is
\* under key "0" and its children are under larger ids, also when the body
\* has emitted children.
C6_RootIdIsZero ==
  Analyzed =>
    /\ result.rootId = 0
    /\ result.map[0].tagName = "body"
    /\ \A c \in ChildKeys(0) : c > 0

-----------------------------------------------------------------------------
(* Properties of cleanup *)

\* the last call was a cleanup: window.cleanupHighlights() called directly,
\* or the side panel's button
CleanupCalled == trace.call \in {"cleanupHighlights", "cleanupBtn"}

\* nothing of the overlays is left in the page
NoOverlayLeft(pg) ==
  /\ pg.overlays = {}
  /\ pg.containers = 0
  /\ pg.listeners = {}
  /\ pg.registry = <<>>

\* C7: after analyzePage with highlighting and then cleanupHighlights, no
\* overlay box, label or container remains, no scroll/resize listener of an
\* overlay remains, the registry is empty, and a second cleanupHighlights call
\* changes nothing.
C7_CleanupRemovesEverything ==
  (trace.call = "cleanupHighlights" /\ ~error) =>
    /\ NoOverlayLeft(page)
    /\ cleanupHighlights(page) = page

\* C7 witness: cleanupHighlights has just run on a page that held the container,
\* boxes, labels and listeners of two runs
C7_CleanedAfterTwoHighlightedRuns ==
  /\ trace.call = "cleanupHighlights"
  /\ ~error
  /\ runs = 2
  /\ trace.before.containers = 1
  /\ \E o \in trace.before.overlays : o.part = "box" /\ o.handle.run = 1
  /\ \E o \in trace.before.overlays : o.part = "label" /\ o.handle.run = 2
  /\ trace.before.listeners # {}
  /\ Len(trace.before.registry) >= 2

\* C8: the cleanup entry point can be invoked at any time, also before any
\* analyzePage call and when no overlay is active; it raises no error and is
\* then a no-op.
C8_CleanupSafeAtAnyTime ==
  /\ ~error
  /\ (CleanupCalled /\ trace.before.overlays = {} /\ trace.before.listeners = {})
       => page = trace.before

-----------------------------------------------------------------------------
(* Properties of what the map leaves out and what gets an index *)

DeniedTags == {"svg", "script", "style", "link", "meta", "noscript", "template"}

\* n, or a node around n up to the top document's body, has a denied tag
RECURSIVE DeniedAtOrAbove(_)
DeniedAtOrAbove(n) ==
  /\ n # NoNode
  /\ El(n).tagName \in DeniedTags \/ DeniedAtOrAbove(Around(dom, n))

\* C9: no record of the map belongs to an element with a denied tag (svg,
\* script, style, link, meta, noscript, template) or to a descendant of one,
\* in light-DOM, frame and shadow-root content.
C9_NoRecordAtOrBelowDenied ==
  \A k \in Keys : ~DeniedAtOrAbove(result.map[k].node)

\* C9 witness: a run over a page with a script inside a frame or under a shadow
\* root and a button or text inside the script, which put the frame's body or
\* the shadow host in the map
C9_ScriptWithContentInFrameOrShadow ==
  /\ Analyzed
  /\ \E n \in NodeIds :
       /\ El(n).tagName \in {"button", "#text"}
       /\ dom.parent[n] \in NodeIds
       /\ El(dom.parent[n]).tagName = "script"
       /\ \/ El(n).inIframe /\ \E k \in Keys : El(result.map[k].node).inIframe
          \/ UnderShadowRoot(dom.parent[n]) /\ HasRecord(dom.parent[dom.parent[n]])

\* the traversal gets to element n when the viewport is unbounded: everything
\* around it is an element with an accepted tag, and frames are same-origin
RECURSIVE Reached(_)
Reached(n) ==
  \/ n = Body
  \/ /\ n # NoNode
     /\ El(n).nodeType = "element"
     /\ El(n).tagName \notin DeniedTags
     /\ IsIframeBody(n) => El(-n).frame = "same"
     /\ Reached(Around(dom, n))

\* the flag isParentHighlighted the traversal passes for n: the element around
\* n was given an index and overlays are being drawn
ParentHighlighted(n) ==
  /\ trace.args.doHighlightElements
  /\ Around(dom, n) \in NodeIds
  /\ Around(dom, n) \in Allocated

\* C10 as stated: with viewportExpansion = -1 every element for which
\* isInteractiveElement holds has a highlightIndex.
C10_EveryInteractiveElementIndexed ==
  (Analyzed /\ trace.args.viewportExpansion = -1) =>
    \A n \in NodeIds :
      (El(n).nodeType = "element" /\ isInteractiveElement(n)) =>
        (HasRecord(n) /\ KeyOf(n) \in Indexed)

\* C10 amended: with viewportExpansion = -1, every element the traversal
\* reaches that is visible (isElementVisible) and interactive
\* (isInteractiveElement), and whose parent was not highlighted or which is a
\* distinct interaction (isElementDistinctInteraction), is given a highlight
\* index whatever its screen position; its record carries the index, and only
\* an anchor can be left without a record.
C10_VisibleDistinctInteractiveIndexed ==
  (Analyzed /\ trace.args.viewportExpansion = -1) =>
    \A n \in NodeIds :
      ( /\ Reached(n)
        /\ isElementVisible(n)
        /\ isInteractiveElement(n)
        /\ ~ParentHighlighted(n) \/ isElementDistinctInteraction(n) ) =>
          /\ n \in Allocated
          /\ HasRecord(n) => KeyOf(n) \in Indexed
          /\ El(n).tagName # "a" => HasRecord(n)

\* C10 witness: an unbounded run that indexed a button below the fold and left
\* an interactive element without an index
C10_BelowFoldIndexedAndOneSkipped ==
  /\ Analyzed
  /\ trace.args.viewportExpansion = -1
  /\ \E n \in Allocated :
       /\ OutsideExpandedViewport(El(n).boundingRect, 0)
       /\ HasRecord(n)
       /\ KeyOf(n) \in Indexed
  /\ \E m \in NodeIds : isInteractiveElement(m) /\ m \notin Allocated

-----------------------------------------------------------------------------
(* Properties of the viewport gate *)

\* element n has client rects and every one of them lies below the window
WhollyBelowWindow(n) ==
  /\ El(n).nodeType = "element"
  /\ El(n).clientRects # <<>>
  /\ \A i \in DOMAIN El(n).clientRects : El(n).clientRects[i].top > Window.innerHeight

\* node n has an entry in interactiveElements
Listed(n) ==
  \E i \in DOMAIN result.interactiveElements : result.interactiveElements[i].node = n

\* C11: with viewportExpansion = 0, an element whose every client rect lies
\* below window.innerHeight gets no highlightIndex and no entry in
\* interactiveElements.
C11_BelowWindowNotIndexed ==
  (Analyzed /\ trace.args.viewportExpansion = 0) =>
    \A n \in NodeIds :
      WhollyBelowWindow(n) =>
        /\ n \notin Allocated
        /\ HasRecord(n) => KeyOf(n) \notin Indexed
        /\ ~Listed(n)

\* C11 witness: a bounded run that recorded an interactive element below the
\* window, inside a frame, without an index, and listed another element
C11_BelowWindowRecordedInFrame ==
  /\ Analyzed
  /\ trace.args.viewportExpansion = 0
  /\ \E n \in NodeIds :
       /\ WhollyBelowWindow(n)
       /\ isInteractiveElement(n)
       /\ El(n).inIframe
       /\ HasRecord(n)
  /\ Len(result.interactiveElements) > 0

-----------------------------------------------------------------------------
(* Properties of hidden content *)

\* n or a node around it has display: none
RECURSIVE InDisplayNone(_)
InDisplayNone(n) ==
  /\ n # NoNode
  /\ El(n).style.display = "none" \/ InDisplayNone(Around(dom, n))

\* element n sits inside a display: none container
InsideHiddenContainer(n) ==
  /\ n \in NodeIds
  /\ El(n).nodeType = "element"
  /\ InDisplayNone(Around(dom, n))

\* <body><button id="b1"></button><div style="display:none"><a href="/x"></a></div></body>
\* analysed with the default settings
HiddenAnchorScenario ==
  /\ Analyzed
  /\ dom.kind = <<"button", "div_hidden", "a_href">>
  /\ dom.parent = <<Body, Body, 2>>
  /\ trace.args = defaultArgs

\* the button (node 1) is the only indexed record, with index 0
OnlyButtonHighlighted ==
  /\ HasRecord(1)
  /\ Indexed = {KeyOf(1)}
  /\ result.map[KeyOf(1)].highlightIndex = 0

\* C12 as stated: with the default settings the anchor inside the hidden div
\* is in the map with isVisible = false and no highlightIndex, and the visible
\* button is the only highlighted element, with index 0.
C12_HiddenAnchorInMap ==
  HiddenAnchorScenario =>
    /\ HasRecord(3)
    /\ ~result.map[KeyOf(3)].isVisible
    /\ result.map[KeyOf(3)].highlightIndex = Undefined
    /\ OnlyButtonHighlighted

\* a display: none element that carries a shadow root
HiddenHost(n) ==
  /\ n \in NodeIds
  /\ El(n).shadowRoot
  /\ InDisplayNone(n)

\* an element, without a shadow root, that is display: none or sits inside a
\* display: none container
HiddenElementWithoutShadowRoot(n) ==
  /\ n \in NodeIds
  /\ El(n).nodeType = "element"
  /\ ~El(n).shadowRoot
  /\ InDisplayNone(n)

\* the traversal gets to element n when the viewport is bounded: n is reached
\* and no element around it, nor n, is an element without shadow root
\* whose bounding rect is 0 wide and 0 high
RECURSIVE ReachedWhenBounded(_)
ReachedWhenBounded(n) ==
  \/ n = Body
  \/ /\ Reached(n)
     /\ \/ El(n).shadowRoot
        \/ El(n).boundingRect.width # 0
        \/ El(n).boundingRect.height # 0
     /\ ReachedWhenBounded(Around(dom, n))

\* C12 amended: with viewportExpansion = 0 an element without a shadow root
\* that is display:none, or sits inside a display:none container, fails the
\* zero-size check and has no record (on the scenario's page neither the
\* hidden div nor its anchor has one, and the button is the only highlighted
\* element, with index 0); a display:none element with a shadow root is
\* exempt from that check and, when the traversal reaches it, is in the map
\* with isVisible = false and no highlightIndex; with viewportExpansion = -1
\* an element inside a hidden container that the traversal reaches is in the
\* map with isVisible = false and no highlightIndex.
C12_HiddenSubtreeOmittedWhenBounded ==
  /\ HiddenAnchorScenario => (~HasRecord(2) /\ ~HasRecord(3) /\ OnlyButtonHighlighted)
  /\ Analyzed =>
       \A n \in NodeIds :
         /\ (trace.args.viewportExpansion = 0 /\ HiddenElementWithoutShadowRoot(n)) =>
              ~HasRecord(n)
         /\ (trace.args.viewportExpansion = 0 /\ HiddenHost(n) /\ ReachedWhenBounded(n)) =>
              /\ HasRecord(n)
              /\ ~result.map[KeyOf(n)].isVisible
              /\ KeyOf(n) \notin Indexed
         /\ (trace.args.viewportExpansion = -1 /\ InsideHiddenContainer(n) /\ Reached(n)) =>
              /\ HasRecord(n)
              /\ ~result.map[KeyOf(n)].isVisible
              /\ KeyOf(n) \notin Indexed

\* C12 witness: the scenario's page analysed with the default settings
C12_ScenarioAnalysed ==
  /\ HiddenAnchorScenario
  /\ result.totalElements = 2
  /\ result.highlightedElements = 1

-----------------------------------------------------------------------------
(* Properties of nested interactive elements *)

\* a node around n, at any depth, was given an index
RECURSIVE HasIndexedAncestor(_)
HasIndexedAncestor(n) ==
  /\ Around(dom, n) # NoNode
  /\ Around(dom, n) \in Allocated \/ HasIndexedAncestor(Around(dom, n))

\* C13: a node that receives a highlightIndex while an ancestor of it, at any
\* depth, has received one satisfies isElementDistinctInteraction; this holds
\* for every settings value.
C13_IndexedBelowIndexedIsDistinct ==
  Analyzed =>
    \A n \in Allocated :
      HasIndexedAncestor(n) => isElementDistinctInteraction(n)

-----------------------------------------------------------------------------
(* Properties of the interactivity gates *)

NativeInteractiveTags ==
  {"a", "button", "input", "select", "textarea", "details", "summary",
   "label", "option", "optgroup", "fieldset", "legend"}

RolesTakenAsInteractive ==
  {"button", "menu", "menubar", "menuitem", "menuitemradio", "menuitemcheckbox",
   "radio", "checkbox", "tab", "switch", "slider", "spinbutton", "combobox",
   "searchbox", "textbox", "listbox", "option", "scrollbar"}

\* element n is no native interactive element and has an interactive role
InteractiveByRole(n) ==
  /\ El(n).nodeType = "element"
  /\ El(n).tagName \notin NativeInteractiveTags
  /\ \E r \in RolesTakenAsInteractive : <<"role", r>> \in El(n).attrs

\* C14: an element that is visible, top, in the expanded viewport, without a
\* highlighted ancestor, and whose role attribute is an interactive role (a div
\* with role="button") has isInteractive = true and receives a highlightIndex.
C14_RoleMakesInteractive ==
  Analyzed =>
    \A n \in NodeIds :
      ( /\ InteractiveByRole(n)
        /\ isElementVisible(n)
        /\ isTopElement(trace.args, n)
        /\ isInExpandedViewport(n, trace.args.viewportExpansion)
        /\ ~HasIndexedAncestor(n) ) =>
          /\ HasRecord(n)
          /\ result.map[KeyOf(n)].isInteractive
          /\ KeyOf(n) \in Indexed
          /\ Listed(n)

\* C14 witness: a bounded run that indexed a div with role="button" after a
\* native button
C14_RoleDivIndexedAfterButton ==
  /\ Analyzed
  /\ trace.args.viewportExpansion = 0
  /\ \E n \in NodeIds :
       /\ InteractiveByRole(n)
       /\ El(n).tagName = "div"
       /\ ~HasIndexedAncestor(n)
       /\ HasRecord(n)
       /\ result.map[KeyOf(n)].highlightIndex > 0

-----------------------------------------------------------------------------
(* Properties of repeated runs *)

\* the outcome r of a run is the outcome of the last run
SameOutcome(r) ==
  /\ r.result = result
  /\ r.trace.ID = trace.ID
  /\ r.trace.highlightIndex = trace.highlightIndex
  /\ r.trace.alloc = trace.alloc

\* ids and highlight indices of the last run start from 0: the keys are
\* 0 .. ID-1 and the i-th node given an index has index i-1
CountersStartAtZero ==
  /\ Keys = 0 .. (trace.ID - 1)
  /\ Len(trace.alloc) = trace.highlightIndex
  /\ \A k \in Indexed :
       trace.alloc[result.map[k].highlightIndex + 1] = result.map[k].node

\* the page has been cleaned by window.cleanupHighlights of an earlier run
CleanedPage(pg) == NoOverlayLeft(pg) /\ pg.cleanupDefined

\* C15: analyzePage, cleanupHighlights, then analyzePage again with the same
\* settings on the unchanged DOM gives the same totalElements, the same
\* highlightedElements and the same assignment of indices to nodes, and the
\* ids and indices of the second run start again from 0.
C15_RerunAfterCleanupSameResult ==
  /\ (Analyzed /\ trace.call = "cleanupHighlights" /\ ~error) =>
       SameOutcome(analyzePage(page, runs + 1, trace.args))
  /\ (trace.call = "analyzePage" /\ CleanedPage(trace.before)) =>
       /\ SameOutcome(analyzePage(FreshPage, 1, trace.args))
       /\ CountersStartAtZero

\* C15 witness: a second run with highlighting has returned on a page that
\* cleanupHighlights had cleaned, with several indexed records
C15_SecondRunOnCleanedPage ==
  /\ runs = 2
  /\ trace.call = "analyzePage"
  /\ CleanedPage(trace.before)
  /\ trace.args.doHighlightElements
  /\ result.highlightedElements >= 2
  /\ page.overlays # {}

-----------------------------------------------------------------------------
(* Properties of frames whose document cannot be read *)

\* n is the body of a cross-origin frame's document or a node inside it
RECURSIVE InsideCrossOrigin(_)
InsideCrossOrigin(n) ==
  /\ n # NoNode
  /\ n # Body
  /\ (IsIframeBody(n) /\ El(-n).frame = "cross") \/ InsideCrossOrigin(Around(dom, n))

\* the record of element n says what the classifier says of n
RecordedAsClassified(n) ==
  /\ HasRecord(n)
  /\ result.map[KeyOf(n)].tagName = El(n).tagName
  /\ result.map[KeyOf(n)].isVisible = isElementVisible(n)
  /\ result.map[KeyOf(n)].isInteractive = (isElementVisible(n) /\ isInteractiveElement(n))
  /\ result.map[KeyOf(n)].isTopElement = (isElementVisible(n) /\ isTopElement(trace.args, n))

\* C16: when a frame's document cannot be read (cross-origin), analyzePage
\* still returns a result without raising; the frame's own record is emitted
\* with no children, nothing inside the frame is recorded, the elements before
\* and after it are recorded as the classifier sees them, and the highlight
\* indices follow the pre-order without a gap.
C16_CrossOriginFrameSkipped ==
  Analyzed =>
    /\ ~error
    /\ result.rootId \in Keys
    /\ \A n \in NodeIds :
         /\ (El(n).frame = "cross" /\ Reached(n)) =>
              (HasRecord(n) /\ result.map[KeyOf(n)].children = <<>>)
         /\ InsideCrossOrigin(n) => ~HasRecord(n)
         /\ (El(n).nodeType = "element" /\ Reached(n)) => RecordedAsClassified(n)
    /\ IndicesInMap = 0 .. (trace.highlightIndex - 1)
    /\ \A j, k \in Indexed :
         Rank(result.map[j].node) < Rank(result.map[k].node)
           => result.map[j].highlightIndex < result.map[k].highlightIndex

\* C16 witness: a cross-origin frame recorded between two buttons that carry
\* consecutive indices
C16_ButtonsAroundCrossOriginFrame ==
  /\ Analyzed
  /\ \E x \in NodeIds :
       /\ El(x).frame = "cross"
       /\ HasRecord(x)
       /\ \E j, k \in Indexed :
            /\ Rank(result.map[j].node) < Rank(x)
            /\ Rank(x) < Rank(result.map[k].node)
            /\ result.map[k].highlightIndex = result.map[j].highlightIndex + 1


\* C17: every record that carries a highlightIndex has isVisible, isInteractive
\* and isTopElement true, and has isInViewport true unless the run used
\* viewportExpansion = -1; a '#text' record never carries a highlightIndex.
C17_IndexedPassedAllGates ==
  \A k \in Keys :
    /\ k \in Indexed =>
         /\ result.map[k].isVisible
         /\ result.map[k].isInteractive
         /\ result.map[k].isTopElement
         /\ result.map[k].isInViewport \/ trace.args.viewportExpansion = -1
    /\ result.map[k].tagName = "#text" => k \notin Indexed

\* C17 witness: a bounded run whose map has an indexed record, a text record,
\* and the record of an interactive element that is not top and has no index
C17_IndexedTextAndGatedRecords ==
  /\ Analyzed
  /\ trace.args.viewportExpansion = 0
  /\ Indexed # {}
  /\ \E k \in Keys : result.map[k].tagName = "#text"
  /\ \E k \in Keys \ Indexed :
       result.map[k].isInteractive /\ ~result.map[k].isTopElement

-----------------------------------------------------------------------------
(* Properties of the focus filter *)

\* the handles of the overlays, listeners and cleanup closures the last run
\* (run number runs) has put on the page
HandlesOfLastRun ==
  {o.handle : o \in {x \in page.overlays : x.handle.run = runs}}
  \cup {l.handle : l \in {x \in page.listeners : x.handle.run = runs}}
  \cup {page.registry[i] : i \in {j \in DOMAIN page.registry : page.registry[j].run = runs}}

\* the last run drew with the focus filter set
FocusedRun ==
  /\ trace.call = "analyzePage"
  /\ trace.args.doHighlightElements
  /\ trace.args.focusHighlightIndex >= 0

\* the settings of the last run without the focus filter
Unfocused(args) == [args EXCEPT !.focusHighlightIndex = -1]

\* C18: with doHighlightElements = true and focusHighlightIndex = k >= 0 a run
\* draws an overlay for at most one node, the one given index k, and gives the
\* nodes the same indices as a run with focusHighlightIndex = -1.
C18_FocusDrawsOnlyMatchingIndex ==
  FocusedRun =>
    /\ Cardinality(HandlesOfLastRun) <= 1
    /\ \A h \in HandlesOfLastRun :
         /\ h.index = trace.args.focusHighlightIndex
         /\ trace.alloc[h.index + 1] = h.node
    /\ SameOutcome(analyzePage(trace.before, runs, Unfocused(trace.args)))

\* C18 witness: a run with focus index 1 gave three nodes an index and drew
\* the box and label of the second one only
C18_FocusedRunDrewSecondOfThree ==
  /\ FocusedRun
  /\ Len(trace.alloc) = 3
  /\ \E o \in page.overlays :
       o.part = "box" /\ o.handle.run = runs /\ o.handle.node = trace.alloc[2]
  /\ \E o \in page.overlays :
       o.part = "label" /\ o.handle.run = runs /\ o.handle.node = trace.alloc[2]

-----------------------------------------------------------------------------
(* Properties of the overlay container *)

\* run r returns the totalElements of the last run
SameTotalElements(r) == r.result.totalElements = result.totalElements

\* the last run started on a page that still showed overlays of an earlier run
RanOverOverlays ==
  /\ trace.call = "analyzePage"
  /\ trace.before.containers > 0
  /\ trace.before.overlays # {}

\* C19: no record of the map is the overlay container (its boxes and labels
\* are inside it and are never walked), also when analyzePage runs while
\* overlays of an earlier run are on the page; such a run returns the
\* totalElements of a first run with the same settings.
C19_ContainerNeverRecorded ==
  /\ \A k \in Keys : result.map[k].node # ContainerNode
  /\ RanOverOverlays => SameTotalElements(analyzePage(FreshPage, 1, trace.args))

\* C19 witness: a second run has walked a body whose last child is the
\* container holding boxes and labels of the first run, and recorded nodes
C19_SecondRunOverFirstRunsOverlays ==
  /\ runs = 2
  /\ RanOverOverlays
  /\ \E o \in trace.before.overlays : o.part = "label" /\ o.handle.run = 1
  /\ result.totalElements >= 3


\* the cleanup closures registered on page pg
Registered(pg) == {pg.registry[i] : i \in DOMAIN pg.registry}

\* every box, label and listener on page pg belongs to a registered closure
AllRegistered(pg) ==
  /\ \A o \in pg.overlays : o.handle \in Registered(pg)
  /\ \A l \in pg.listeners : l.handle \in Registered(pg)

\* page pg holds what page before held, and its registry continues the
\* registry of before
Accumulates(before, pg) ==
  /\ before.overlays \subseteq pg.overlays
  /\ before.listeners \subseteq pg.listeners
  /\ Len(pg.registry) >= Len(before.registry)
  /\ SubSeq(pg.registry, 1, Len(before.registry)) = before.registry

\* C20: after any sequence of analyzePage and cleanupHighlights calls the page
\* holds at most one overlay container; the overlays and cleanup closures of
\* runs without cleanup in between accumulate in the one registry; and one
\* cleanupHighlights call removes the overlays and listeners of all earlier
\* runs, empties the registry and removes the container.
C20_OneContainerOneRegistry ==
  /\ page.containers <= 1
  /\ AllRegistered(page)
  /\ trace.call = "analyzePage" => Accumulates(trace.before, page)
  /\ (trace.call = "cleanupHighlights" /\ ~error) =>
       /\ page.containers = 0
       /\ page.registry = <<>>
       /\ \A h \in Registered(trace.before) :
            /\ ~ \E o \in page.overlays : o.handle = h
            /\ ~ \E l \in page.listeners : l.handle = h

\* C20 witness: one cleanupHighlights call has emptied a registry that held
\* closures of the first and of the second run, on a page with one container
C20_OneCleanupAfterTwoRuns ==
  /\ trace.call = "cleanupHighlights"
  /\ ~error
  /\ trace.before.containers = 1
  /\ \E h \in Registered(trace.before) : h.run = 1
  /\ \E h \in Registered(trace.before) : h.run = 2
  /\ \E l \in trace.before.listeners : l.handle.run = 1
  /\ page.registry = <<>>

-----------------------------------------------------------------------------
(* Properties tying overlays to records *)

\* the last run drew every index on a page that held no overlay and no closure
DrewAllOnCleanPage ==
  /\ trace.call = "analyzePage"
  /\ trace.args.doHighlightElements
  /\ trace.args.focusHighlightIndex = -1
  /\ trace.before.overlays = {}
  /\ trace.before.registry = <<>>

\* the labels on the page
Labels(pg) == {o \in pg.overlays : o.part = "label"}

\* the records whose highlightIndex and node are those of handle h
RecordsOf(h) ==
  {k \in Indexed : result.map[k].highlightIndex = h.index /\ result.map[k].node = h.node}

\* C21: after analyzePage with doHighlightElements = true and
\* focusHighlightIndex = -1 on a page without earlier overlays, the number of
\* cleanup closures in the registry equals highlightedElements and each
\* overlay label shows the highlightIndex of exactly one record of the map.
C21_OverlaysOneToOneWithRecords ==
  DrewAllOnCleanPage =>
    /\ Len(page.registry) = result.highlightedElements
    /\ \A o \in Labels(page) : Cardinality(RecordsOf(o.handle)) = 1

-----------------------------------------------------------------------------
(* Properties of drawing versus indexing *)

\* the pairs <<node, highlightIndex>> of the records of a map
IndexOfNode(map) ==
  {<<map[k].node, map[k].highlightIndex>> : k \in Highlighted(map)}

\* run r gives the nodes the indices the last run gave them
SameAssignment(r) ==
  /\ r.trace.alloc = trace.alloc
  /\ IndexOfNode(r.result.map) = IndexOfNode(result.map)

\* the settings with doHighlightElements switched
OtherDrawing(args) == [args EXCEPT !.doHighlightElements = ~@]

\* C22: doHighlightElements only controls drawing: for the same DOM and the
\* same other settings, a run with doHighlightElements = false gives a
\* highlightIndex to the same nodes, with the same values, as a run with
\* doHighlightElements = true.
C22_DrawingDoesNotChangeIndices ==
  trace.call = "analyzePage" =>
    SameAssignment(analyzePage(trace.before, runs, OtherDrawing(trace.args)))

-----------------------------------------------------------------------------
(* Properties of isInteractiveElement *)

\* the six conditions, each taken on its own
InteractiveCursor(n) == El(n).style.cursor \in interactiveCursors /\ El(n).tagName # "html"

Disabled(n) ==
  \/ \E t \in {"disabled", "readonly", "inert"} : hasAttribute(n, t)
  \/ El(n).style.cursor \in nonInteractiveCursors

EnabledInteractiveTag(n) == El(n).tagName \in interactiveElements /\ ~Disabled(n)

ContentEditable(n) ==
  <<"contenteditable", "true">> \in El(n).attrs \/ isContentEditable(n)

InteractiveMarker(n) ==
  \/ <<"class", "button">> \in El(n).attrs
  \/ <<"class", "dropdown-toggle">> \in El(n).attrs
  \/ <<"data-toggle", "dropdown">> \in El(n).attrs
  \/ <<"aria-haspopup", "true">> \in El(n).attrs
  \/ \E p \in El(n).attrs : p[1] = "data-index" /\ p[2] # ""

InteractiveRole(n) ==
  \E p \in El(n).attrs : p[1] \in {"role", "aria-role"} /\ p[2] \in interactiveRoles

InlineHandler(n) ==
  \E p \in El(n).attrs : p[1] \in {"onclick", "onmousedown", "onmouseup", "ondblclick"}

\* conditions (c) to (f)
AnyLaterCondition(n) ==
  ContentEditable(n) \/ InteractiveMarker(n) \/ InteractiveRole(n) \/ InlineHandler(n)

\* the records of the elements below the body that isElementVisible accepted,
\* for which the traversal has called isInteractiveElement
ClassifiedRecords ==
  {k \in Keys : /\ result.map[k].isVisible
                /\ result.map[k].tagName \notin {"#text", "body"}}

\* C23 as stated: isInteractiveElement(el) is true if and only if at least
\* one of the six conditions (a) to (f) holds, each taken on its own.
C23_InteractiveIffAnyCondition ==
  \A k \in ClassifiedRecords :
    result.map[k].isInteractive <=>
      \/ InteractiveCursor(result.map[k].node)
      \/ EnabledInteractiveTag(result.map[k].node)
      \/ AnyLaterCondition(result.map[k].node)

\* C23 amended: isInteractiveElement(el) is true if and only if (a) holds, or
\* the tag is in the interactive-tag set and (b) holds, or the tag is not in
\* that set and one of (c) to (f) holds: for an interactive tag without an
\* interactive cursor the verdict of (b) is final.
C23_InteractiveTagDecidedByB ==
  \A k \in ClassifiedRecords :
    result.map[k].isInteractive <=>
      \/ InteractiveCursor(result.map[k].node)
      \/ EnabledInteractiveTag(result.map[k].node)
      \/ /\ El(result.map[k].node).tagName \notin interactiveElements
         /\ AnyLaterCondition(result.map[k].node)

\* C23 witness: a run recorded a disabled button of class 'button' as not
\* interactive, a div of class 'button' as interactive and a plain div as not
C23_DisabledButtonWithMarkerClass ==
  /\ \E k \in ClassifiedRecords :
       /\ dom.kind[result.map[k].node] = "button_off"
       /\ InteractiveMarker(result.map[k].node)
       /\ ~result.map[k].isInteractive
  /\ \E k \in ClassifiedRecords :
       /\ dom.kind[result.map[k].node] = "div_cls"
       /\ result.map[k].isInteractive
  /\ \E k \in ClassifiedRecords :
       /\ dom.kind[result.map[k].node] = "div"
       /\ ~result.map[k].isInteractive

-----------------------------------------------------------------------------
(* Properties of the early viewport check *)

\* the last run was made in bounded viewport mode
BoundedRun == trace.call = "analyzePage" /\ trace.args.viewportExpansion # -1

\* element n has a bounding rect without area
ZeroArea(n) ==
  /\ El(n).nodeType = "element"
  /\ (El(n).boundingRect.width = 0 \/ El(n).boundingRect.height = 0)

\* element n has no shadow root and a bounding rect 0 wide and 0 high
ZeroSizeNoShadow(n) ==
  /\ El(n).nodeType = "element"
  /\ ~El(n).shadowRoot
  /\ El(n).boundingRect.width = 0
  /\ El(n).boundingRect.height = 0

\* n, or a node around n below the top document's body, has no area
RECURSIVE ZeroAreaAtOrAbove(_)
ZeroAreaAtOrAbove(n) ==
  IF n = Body \/ n = NoNode THEN FALSE
  ELSE ZeroArea(n) \/ ZeroAreaAtOrAbove(Around(dom, n))

RECURSIVE ZeroSizeNoShadowAtOrAbove(_)
ZeroSizeNoShadowAtOrAbove(n) ==
  IF n = Body \/ n = NoNode THEN FALSE
  ELSE ZeroSizeNoShadow(n) \/ ZeroSizeNoShadowAtOrAbove(Around(dom, n))

\* C24 as stated: under bounded viewport mode no element whose bounding rect
\* has zero area is emitted into the map, and none of its descendants is.
C24_NoZeroAreaElementEmitted ==
  BoundedRun => \A k \in Keys : ~ZeroAreaAtOrAbove(result.map[k].node)

\* C24 amended: under bounded viewport mode no element without a shadow root
\* whose bounding rect is 0 wide and 0 high is emitted into the map, and none
\* of its descendants is; a shadow host, and an element with only one side
\* of zero length, is emitted when the traversal reaches it.
C24_NoZeroSizeElementEmitted ==
  BoundedRun =>
    /\ \A k \in Keys : ~ZeroSizeNoShadowAtOrAbove(result.map[k].node)
    /\ \A n \in NodeIds :
         (ZeroArea(n) /\ ~ZeroSizeNoShadow(n) /\ Around(dom, n) = Body) => HasRecord(n)

\* C24 witness: a bounded run recorded an empty div of no height and an
\* empty shadow host, and left out a display:none div
C24_FlatDivAndEmptyHostRecorded ==
  /\ BoundedRun
  /\ \E n \in NodeIds : dom.kind[n] = "div_flat" /\ ZeroArea(n) /\ HasRecord(n)
  /\ \E n \in NodeIds : dom.kind[n] = "host_empty" /\ ZeroArea(n) /\ HasRecord(n)
  /\ \E n \in NodeIds : dom.kind[n] = "div_hidden" /\ ZeroSizeNoShadow(n) /\ ~HasRecord(n)

-----------------------------------------------------------------------------
(* Properties of attribute capture *)

candidateTags == {"a", "button", "input", "select", "textarea", "details", "summary", "label"}

\* the attribute name starts with aria-
IsAriaName(name) ==
  name \in {"aria-label", "aria-haspopup", "aria-role", "aria-expanded", "aria-hidden"}

\* element n is an interactive candidate as the specification words it
CandidateBySpec(n) ==
  \/ El(n).tagName \in candidateTags
  \/ \E p \in El(n).attrs : p[1] \in {"onclick", "role", "tabindex", "data-action"}
  \/ \E p \in El(n).attrs : IsAriaName(p[1])
  \/ <<"contenteditable", "true">> \in El(n).attrs

\* the records of elements other than the root
ElementRecords == {k \in Keys : result.map[k].tagName \notin {"#text", "body"}}

\* C25: for every element record other than the root, attributes holds the
\* element's full attribute map exactly when the element is an interactive
\* candidate (candidate tag, or onclick, role, tabindex, any aria-* attribute,
\* data-action, or contenteditable="true") or its tag is iframe or body;
\* otherwise attributes is empty.
C25_AttributesOnlyForCandidates ==
  \A k \in ElementRecords :
    result.map[k].attributes =
      IF CandidateBySpec(result.map[k].node) \/ result.map[k].tagName \in {"iframe", "body"}
      THEN El(result.map[k].node).attrs
      ELSE {}

-----------------------------------------------------------------------------
(* Properties of empty-anchor pruning *)

\* n is an 'a' element without href, with a bounding rect 0 wide and 0 high,
\* none of whose child nodes was emitted
EmptyAnchor(n) ==
  /\ El(n).nodeType = "element"
  /\ El(n).tagName = "a"
  /\ ~hasAttribute(n, "href")
  /\ El(n).boundingRect.width = 0
  /\ El(n).boundingRect.height = 0
  /\ \A i \in DOMAIN WalkedFrom(n) : ~HasRecord(WalkedFrom(n)[i])

\* node n is referenced by an overlay, a listener or a cleanup closure
HasOverlay(pg, n) ==
  \/ \E o \in pg.overlays : o.handle.node = n
  \/ \E l \in pg.listeners : l.handle.node = n
  \/ \E i \in DOMAIN pg.registry : pg.registry[i].node = n

\* C26: an 'a' element with no emitted children, no href and a zero-size
\* bounding rect is dropped entirely under every viewportExpansion value: it
\* has no record in the map, no children list references it, it consumes no
\* highlight index and no overlay is left for it.
C26_EmptyAnchorDroppedEntirely ==
  trace.call = "analyzePage" =>
    \A n \in NodeIds :
      EmptyAnchor(n) =>
        /\ ~HasRecord(n)
        /\ n \notin Allocated
        /\ ~HasOverlay(page, n)

-----------------------------------------------------------------------------
(* Properties of the throttled position update *)

\* the listener has been called since the overlay was built, after a
\* recomputation had already been executed
EventAfterRecomputation == tracker.outcome # "none" /\ tracker.prev.lastRun >= 0

\* box i shows the i-th current client rect of the element, moved by the
\* frame's current offset; a box without a rect is hidden
BoxesFollowElement(newRects, offset) ==
  \A i \in DOMAIN tracker.boxes :
    IF i <= Len(newRects)
    THEN /\ tracker.boxes[i].display = "block"
         /\ tracker.boxes[i].top = newRects[i].top + offset.y
         /\ tracker.boxes[i].left = newRects[i].left + offset.x
         /\ tracker.boxes[i].width = newRects[i].width
         /\ tracker.boxes[i].height = newRects[i].height
    ELSE tracker.boxes[i].display = "none"

\* the label is shown inside the window, by the top-right corner of the
\* first current rect when there is room for it
LabelFollowsElement(newRects, offset) ==
  /\ tracker.label.display = "block"
  /\ tracker.label.top >= 0
  /\ tracker.label.top <= Window.innerHeight - labelHeight
  /\ tracker.label.left >= 0
  /\ tracker.label.left <= Window.innerWidth - labelWidth
  /\ (newRects[1].top + offset.y + 2 \in 0 .. (Window.innerHeight - labelHeight)
      /\ newRects[1].height >= labelHeight + 4 /\ newRects[1].width >= labelWidth + 4)
       => tracker.label.top = newRects[1].top + offset.y + 2

\* C27: the scroll/resize handler of an overlay runs the position
\* recomputation at most once per 16 ms window: an event that arrives less
\* than 16 ms after the last executed recomputation is dropped with no
\* deferred run, and an event that arrives 16 ms or more after it triggers a
\* recomputation that sets the boxes and the label to the element's current
\* client rects.
C27_ThrottledToSixteenMs ==
  /\ (EventAfterRecomputation /\ tracker.eventAt - tracker.prev.lastRun < 16) =>
       /\ tracker.outcome = "dropped"
       /\ tracker.lastRun = tracker.prev.lastRun
       /\ tracker.boxes = tracker.prev.boxes
       /\ tracker.label = tracker.prev.label
  /\ (EventAfterRecomputation /\ tracker.eventAt - tracker.prev.lastRun >= 16) =>
       /\ tracker.outcome = "ran"
       /\ tracker.lastRun = tracker.eventAt
       /\ BoxesFollowElement(getClientRects(tracker.element, tracker.scrollY, tracker.wide),
                             iframeOffset(tracker.parentIframe, tracker.scrollY))
       /\ LabelFollowsElement(getClientRects(tracker.element, tracker.scrollY, tracker.wide),
                              iframeOffset(tracker.parentIframe, tracker.scrollY))
  /\ (tracker.outcome = "ran" /\ tracker.prev.lastRun >= 0) =>
       tracker.lastRun - tracker.prev.lastRun >= 16

\* C27 witness: a scroll event 8 ms after an executed recomputation was
\* dropped; time has passed since, and the boxes still show the rects from
\* before the scroll
C27_DroppedEventLeftBoxesBehind ==
  /\ EventAfterRecomputation
  /\ tracker.outcome = "dropped"
  /\ tracker.eventAt - tracker.prev.lastRun = 8
  /\ tracker.now >= tracker.eventAt + 16
  /\ Len(tracker.boxes) = 2
  /\ ~BoxesFollowElement(getClientRects(tracker.element, tracker.scrollY, tracker.wide),
                         iframeOffset(tracker.parentIframe, tracker.scrollY))

-----------------------------------------------------------------------------
(* Properties of the side panel's results table *)

\* an analysis has been shown and nothing of the panel is still to run
PanelQuiescent ==
  /\ runs > 0
  /\ panel.stage = "idle"
  /\ ~panel.disabled
  /\ panel.tasks = <<>>
  /\ panel.cleanups = <<>>
  /\ panel.populated = runs
  /\ ~panel.unhandled

\* the rows of elements (the placeholder row left out)
ElementRows(table) == SelectSeq(table, LAMBDA r : r.kind = "element")

\* the rows the most recent analysis calls for
RowsOfLatestAnalysis ==
  Rows(result.interactiveElements, elementsCssData(page, result.map))

\* C28: after any sequence of Analyze clicks and once all pending callbacks
\* have run, the results table holds exactly one row per entry of the most
\* recent analysis's interactiveElements, with CSS paths computed from that
\* same analysis; rows of an earlier analysis never remain in the table.
\* (The most recent analysis is one whose result the handler received and
\* passed to populateResultsTable; a click that ended in the error status
\* is not in question, nor is a table whose callback threw or got no answer
\* from the tab since the table was cleared.)
C28_TableShowsLatestAnalysis ==
  PanelQuiescent => ElementRows(panel.table) = RowsOfLatestAnalysis


-----------------------------------------------------------------------------
(* C29 *)

\* how many times the run invoked the browser method api on element
Invocations(api, element) ==
  Cardinality({i \in DOMAIN trace.calls : trace.calls[i] = <<api, element>>})

BrowserMethods == {"getBoundingClientRect", "getClientRects", "getComputedStyle"}

\* C29: during one analyzePage run each of getBoundingClientRect,
\* getClientRects and getComputedStyle is invoked at most once for each
\* element, and when the run has returned the three caches are empty.
C29_EachBrowserCallAtMostOnce ==
  trace.call = "analyzePage" =>
    /\ \A api \in BrowserMethods : \A n \in AllNodes : Invocations(api, n) <= 1
    /\ trace.cache = NoCache


-----------------------------------------------------------------------------
(* C30 *)

\* entry i of interactiveElements was made from the record under key k
EntryOf(i, k) ==
  /\ result.interactiveElements[i].index = result.map[k].highlightIndex
  /\ result.interactiveElements[i].node = result.map[k].node
  /\ result.interactiveElements[i].tagName = result.map[k].tagName
  /\ result.interactiveElements[i].attributes = result.map[k].attributes
  /\ result.interactiveElements[i].xpath = result.map[k].xpath
  /\ result.interactiveElements[i].isVisible = result.map[k].isVisible
  /\ result.interactiveElements[i].isInViewport = result.map[k].isInViewport

Entries == DOMAIN result.interactiveElements

\* the text of the children of the record under key k, before it is cut
UncutText(k) == trim(ChildrenText(result.map, result.map[k].children))

\* C30: interactiveElements lists exactly the records of the map that carry
\* a highlightIndex, one entry per record, in ascending index order; its
\* length equals highlightedElements, and each entry's text has at most 100
\* characters.
C30_InteractiveElementsListIndexedRecords ==
  Analyzed =>
    /\ \A i \in Entries : \E k \in Indexed : EntryOf(i, k)
    /\ \A k \in Indexed : Cardinality({i \in Entries : EntryOf(i, k)}) = 1
    /\ \A i, j \in Entries :
         i < j => result.interactiveElements[i].index < result.interactiveElements[j].index
    /\ Len(result.interactiveElements) = result.highlightedElements
    /\ \A i \in Entries : Len(result.interactiveElements[i].text) <= 100

\* C30 witness: a result with two entries, one of them made from a record
\* whose children's text is longer than 100 characters and was cut to 100
C30_TwoEntriesOneTextCut ==
  /\ Analyzed
  /\ Len(result.interactiveElements) >= 2
  /\ \E i \in Entries : \E k \in Indexed :
       /\ EntryOf(i, k)
       /\ Len(UncutText(k)) > 100
       /\ Len(result.interactiveElements[i].text) = 100
       /\ result.interactiveElements[i].text = SubSeq(UncutText(k), 1, 100)

====
